---- MODULE Spec2Model ----
(***************************************************************************)
(* Agent King: ingestion and reconciliation of a bibliography.             *)
(*                                                                         *)
(* The module models the title normalisers (main.normalize_title and       *)
(* BookMerger._normalize), the similarity matcher, the edition-variant     *)
(* stripper, the cross-source merger, the Wikipedia table extractor, the   *)
(* pass of main over the merged candidates and the retry loop of the       *)
(* Gemini service.                                                         *)
(* A Python str is a sequence of one-character strings; a Python dict is a *)
(* function whose DOMAIN is the set of its keys; a dict that two names     *)
(* share is a cell of the heap, named by a reference.                      *)
(***************************************************************************)
EXTENDS Integers, Sequences, FiniteSets, TLC

VARIABLES
    \* ---- title functions (main.py) ----
    tpc,            \* "input" | "done"
    title,          \* the title string given to the normalisers
    other,          \* the second string given to is_similar_title
    key,            \* normalize_title(title)
    rekey,          \* normalize_title(key)
    mkey,           \* BookMerger._normalize(title)
    sim,            \* is_similar_title(title, other)
    \* ---- BookMerger.merge (services/merger.py) ----
    mpc,            \* "start" | "loop" | "done"
    sources,        \* *sources: a sequence of lists of references
    heap,           \* reference -> dict (the records the lists hold)
    heap0,          \* the heap as it was when merge was called
    existing_titles,        \* the caller's known-title set
    existing_titles0,       \* that set as it was when merge was called
    existing_normalized,    \* merge's local projection of it
    all_books,      \* dict key -> reference
    order,          \* insertion order of all_books' keys
    pos,            \* number of records already iterated over
    skipped,        \* references skipped by the existence filter
    result,         \* the returned list of references
    \* ---- WikipediaService._parse_section (services/wikipedia.py) ----
    wpc,            \* "loop" | "done"
    rows,           \* table.find_all("tr")[1:]
    ri,             \* number of rows already parsed
    current_year,
    books,          \* the records emitted so far
    trace,          \* per parsed row: what _parse_row saw and returned
    \* ---- levenshtein_distance and is_similar_title on pairs (main.py) ----
    cpc,            \* "input" | "measured" | "done"
    arg1,
    arg2,
    arg_threshold,  \* the threshold, in hundredths
    dist,           \* levenshtein_distance(arg1, arg2)
    dist_swapped,   \* levenshtein_distance(arg2, arg1)
    similar,        \* is_similar_title(arg1, arg2, arg_threshold)
    \* ---- BookMerger._extract_base_title on keys (services/merger.py) ----
    bpc,            \* "input" | "done"
    bkey,           \* a normalized key
    base,           \* _extract_base_title(bkey)
    rebase,         \* _extract_base_title(base)
    \* ---- main (main.py), from the loop over the merged candidates on ----
    fpc,            \* "loop" | "done"
    run_titles,     \* main's existing_titles
    run_normalized, \* main's existing_normalized
    candidates,     \* main's all_books: the list merge returned
    fi,             \* number of candidates already handled
    added_books,
    sheet,          \* the rows add_book appended to the store
    flow,           \* per handled candidate: what the pass saw and did
    \* ---- GeminiService._call_with_retry (services/gemini.py) ----
    rpc,            \* "call" | "sleep" | "returned"
    prompt,         \* which request the call carries
    attempt,
    calls,          \* the outcome of every generate_content call so far
    slept,          \* the delays slept so far
    outcome         \* the value returned (<<>> before the return)

titleVars == <<tpc, title, other, key, rekey, mkey, sim>>
mergeVars == <<mpc, sources, heap, heap0, existing_titles, existing_titles0,
               existing_normalized, all_books, order, pos, skipped, result>>
wikiVars  == <<wpc, rows, ri, current_year, books, trace>>
matchVars == <<cpc, arg1, arg2, arg_threshold, dist, dist_swapped, similar>>
baseVars  == <<bpc, bkey, base, rebase>>
mainVars  == <<fpc, run_titles, run_normalized, candidates, fi, added_books,
               sheet, flow>>
retryVars == <<rpc, prompt, attempt, calls, slept, outcome>>
vars      == <<titleVars, mergeVars, wikiVars, matchVars, baseVars, mainVars,
               retryVars>>

Min(a, b) == IF a < b THEN a ELSE b
Max(a, b) == IF a > b THEN a ELSE b

(***************************************************************************)
(* Characters.                                                             *)
(***************************************************************************)
UpperSeq == <<"A","B","C","D","E","F","G","H","I","J","K","L","M",
              "N","O","P","Q","R","S","T","U","V","W","X","Y","Z","É">>
LowerSeq == <<"a","b","c","d","e","f","g","h","i","j","k","l","m",
              "n","o","p","q","r","s","t","u","v","w","x","y","z","é">>
Uppers == {UpperSeq[i] : i \in 1..Len(UpperSeq)}
Lowers == {LowerSeq[i] : i \in 1..Len(LowerSeq)}
Digits == {"0","1","2","3","4","5","6","7","8","9"}
\* \s
WS == {" ", "\t"}
\* \w
WordChars == Uppers \cup Lowers \cup Digits \cup {"_"}

\* str.lower(), one character
LowerMap == [c \in Uppers |-> LowerSeq[CHOOSE i \in 1..Len(UpperSeq) : UpperSeq[i] = c]]
LowerChar(c) == IF c \in Uppers THEN LowerMap[c] ELSE c

\* str.lower()
str_lower(s) == [i \in 1..Len(s) |-> LowerChar(s[i])]

\* the first index j >= i of s that holds no character of class C (Len(s)+1 when
\* there is none): where a greedy C* that starts at i ends
SkipClass(s, i, C) ==
    CHOOSE j \in i..(Len(s) + 1) :
        /\ \A k \in i..(j - 1) : s[k] \in C
        /\ (j = Len(s) + 1 \/ s[j] \notin C)

\* the literal lit stands in s at index i
MatchAt(s, i, lit) ==
    /\ i >= 1
    /\ i + Len(lit) - 1 <= Len(s)
    /\ \A k \in 1..Len(lit) : s[i + k - 1] = lit[k]

\* the same under re.IGNORECASE
MatchAtI(s, i, lit) ==
    /\ i >= 1
    /\ i + Len(lit) - 1 <= Len(s)
    /\ \A k \in 1..Len(lit) : LowerChar(s[i + k - 1]) = lit[k]

\* s[i-1:] in Python terms: s from its i-th character on
From(s, i) == SubSeq(s, i, Len(s))

\* str.strip()
str_strip(s) ==
    LET a == SkipClass(s, 1, WS)
    IN  IF a > Len(s) THEN <<>>
        ELSE LET b == CHOOSE j \in a..Len(s) :
                          s[j] \notin WS /\ \A k \in (j + 1)..Len(s) : s[k] \in WS
             IN  SubSeq(s, a, b)

KeepWordOrSpace(c) == c \in WordChars \/ c \in WS

\* re.sub(r"[^\w\s]", "", s)
RemovePunct(s) == SelectSeq(s, KeepWordOrSpace)

\* re.sub(r"\s+", " ", s)
CollapseSpaces(s) ==
    LET first(i) == ~(s[i] \in WS /\ i > 1 /\ s[i - 1] \in WS)
        idx == SelectSeq([i \in 1..Len(s) |-> i], first)
    IN  [k \in 1..Len(idx) |-> IF s[idx[k]] \in WS THEN " " ELSE s[idx[k]]]

(***************************************************************************)
(* main.normalize_title                                                    *)
(***************************************************************************)
Numerals == {"i","v","x","l","c"} \cup Digits

\* where  <word1>\s+<word2>\s*[ivxlc0-9]*\s*:\s*  ends when it starts at i
\* (0: no match); every starred class is disjoint from what follows it, so
\* the greedy match is the only one
SeriesEnd(s, i, word1, word2) ==
    IF ~MatchAt(s, i, word1) THEN 0
    ELSE LET j == SkipClass(s, i + Len(word1), WS)
         IN  IF j = i + Len(word1) \/ ~MatchAt(s, j, word2) THEN 0
             ELSE LET k == SkipClass(s, j + Len(word2), WS)
                      m == SkipClass(s, k, Numerals)
                      n == SkipClass(s, m, WS)
                  IN  IF n <= Len(s) /\ s[n] = ":" THEN SkipClass(s, n + 1, WS)
                      ELSE 0

\* where  <lit>\s+  ends when it starts at index 1 (0: no match)
WordSpacesEnd(s, lit) ==
    IF MatchAt(s, 1, lit) /\ Len(s) > Len(lit) /\ s[Len(lit) + 1] \in WS
    THEN SkipClass(s, Len(lit) + 1, WS)
    ELSE 0

\* re.sub(r"^(the\s+)?dark\s+tower\s*[ivxlc0-9]*\s*:\s*", "", s)
StripDarkTower(s) ==
    LET t  == WordSpacesEnd(s, <<"t","h","e">>)
        e1 == IF t = 0 THEN 0
              ELSE SeriesEnd(s, t, <<"d","a","r","k">>, <<"t","o","w","e","r">>)
        e  == IF e1 # 0 THEN e1
              ELSE SeriesEnd(s, 1, <<"d","a","r","k">>, <<"t","o","w","e","r">>)
    IN  IF e = 0 THEN s ELSE From(s, e)

\* where  <a>\s+<b>\s+<c>...  "la\s+tour\s+sombre" followed by the numeral and
\* the colon ends (0: no match)
TourSombreEnd(s) ==
    LET t == WordSpacesEnd(s, <<"l","a">>)
    IN  IF t = 0 THEN 0
        ELSE SeriesEnd(s, t, <<"t","o","u","r">>, <<"s","o","m","b","r","e">>)

\* re.sub(r"^la\s+tour\s+sombre\s*[ivxlc0-9]*\s*:\s*", "", s)
StripTourSombre(s) ==
    LET e == TourSombreEnd(s) IN IF e = 0 THEN s ELSE From(s, e)

\* re.sub(r"^gwendy[''s]*\s*", "", s)
StripGwendy(s) ==
    IF MatchAt(s, 1, <<"g","w","e","n","d","y">>)
    THEN From(s, SkipClass(s, SkipClass(s, 7, {"'", "s"}), WS))
    ELSE s

\* the alternatives of r"^(the|a|an|le|la|les|l'|un|une)\s+"
TitleArticles ==
    { <<"t","h","e">>, <<"a">>, <<"a","n">>, <<"l","e">>, <<"l","a">>,
      <<"l","e","s">>, <<"l","'">>, <<"u","n">>, <<"u","n","e">> }

\* the alternatives of r"^(the|a|an)\s+"
MergerArticles == { <<"t","h","e">>, <<"a">>, <<"a","n">> }

\* re.sub(r"^(<arts>)\s+", "", s): at most one alternative is followed by
\* white space, so the alternation's order does not matter
StripArticle(s, arts) ==
    IF \E a \in arts : WordSpacesEnd(s, a) # 0
    THEN From(s, WordSpacesEnd(s, CHOOSE a \in arts : WordSpacesEnd(s, a) # 0))
    ELSE s

\* normalize_title with the last two substitutions exchanged: white space is
\* collapsed before the punctuation is removed
normalize_title_collapse_first(t) ==
    LET t1 == str_strip(str_lower(t))
        t2 == StripDarkTower(t1)
        t3 == StripTourSombre(t2)
        t4 == StripGwendy(t3)
        t5 == StripArticle(t4, TitleArticles)
        t6 == CollapseSpaces(t5)
        t7 == RemovePunct(t6)
    IN  str_strip(t7)

normalize_title(t) ==
    LET t1 == str_strip(str_lower(t))
        t2 == StripDarkTower(t1)
        t3 == StripTourSombre(t2)
        t4 == StripGwendy(t3)
        t5 == StripArticle(t4, TitleArticles)
        t6 == RemovePunct(t5)
        t7 == CollapseSpaces(t6)
    IN  str_strip(t7)

(***************************************************************************)
(* BookMerger._normalize                                                   *)
(***************************************************************************)
_normalize(t) ==
    LET t1 == str_strip(str_lower(t))
        t2 == StripArticle(t1, MergerArticles)
        t3 == RemovePunct(t2)
        t4 == CollapseSpaces(t3)
    IN  str_strip(t4)

(***************************************************************************)
(* BookMerger._extract_base_title                                          *)
(***************************************************************************)
\* A pattern  \s+<core>.*$  matches at i when s[i] is white space and <core>
\* follows the white space: the greedy \s+ is the only way to match, the core
\* starting with a letter or a digit.  Keys hold no line break, so .*$ runs
\* to the end of the string.

\* the core  <w1>\s+<w2>  at j (pattern 1)
CoreSpaced(s, j, w1, w2) ==
    /\ MatchAtI(s, j, w1)
    /\ LET k == SkipClass(s, j + Len(w1), WS)
       IN  k > j + Len(w1) /\ MatchAtI(s, k, w2)

\* the core  <w1>\s*<w2>  at j (patterns 3 to 7)
CoreJoined(s, j, w1, w2) ==
    /\ MatchAtI(s, j, w1)
    /\ MatchAtI(s, SkipClass(s, j + Len(w1), WS), w2)

\* the core  complete\s*(and\s*)?uncut  at j (pattern 2)
CoreCompleteUncut(s, j) ==
    /\ MatchAtI(s, j, <<"c","o","m","p","l","e","t","e">>)
    /\ LET k == SkipClass(s, j + 8, WS)
       IN  \/ MatchAtI(s, k, <<"u","n","c","u","t">>)
           \/ /\ MatchAtI(s, k, <<"a","n","d">>)
              /\ MatchAtI(s, SkipClass(s, k + 3, WS), <<"u","n","c","u","t">>)

\* the core  \d{4}\s*edition  at j (pattern 8)
CoreYearEdition(s, j) ==
    /\ j + 3 <= Len(s)
    /\ \A k \in j..(j + 3) : s[k] \in Digits
    /\ MatchAtI(s, SkipClass(s, j + 4, WS), <<"e","d","i","t","i","o","n">>)

\* the core of pattern n at j
EditionCore(n, s, j) ==
    CASE n = 1 -> CoreSpaced(s, j, <<"t","h","e">>, <<"c","o","m","p","l","e","t","e">>)
      [] n = 2 -> CoreCompleteUncut(s, j)
      [] n = 3 -> CoreJoined(s, j, <<"u","n","c","u","t">>, <<"e","d","i","t","i","o","n">>)
      [] n = 4 -> CoreJoined(s, j, <<"e","x","p","a","n","d","e","d">>, <<"e","d","i","t","i","o","n">>)
      [] n = 5 -> CoreJoined(s, j, <<"s","p","e","c","i","a","l">>, <<"e","d","i","t","i","o","n">>)
      [] n = 6 -> CoreJoined(s, j, <<"i","l","l","u","s","t","r","a","t","e","d">>, <<"e","d","i","t","i","o","n">>)
      [] n = 7 -> CoreJoined(s, j, <<"d","i","r","e","c","t","o","r","s">>, <<"c","u","t">>)
      [] n = 8 -> CoreYearEdition(s, j)

\* pattern n matches at i
EditionMatchAt(n, s, i) ==
    /\ i <= Len(s)
    /\ s[i] \in WS
    /\ EditionCore(n, s, SkipClass(s, i, WS))

\* re.sub(patterns[n], "", s, flags=re.IGNORECASE): the leftmost match runs to
\* the end of s
StripEdition(n, s) ==
    IF \E i \in 1..Len(s) : EditionMatchAt(n, s, i)
    THEN LET start == CHOOSE i \in 1..Len(s) :
                          /\ EditionMatchAt(n, s, i)
                          /\ \A h \in 1..(i - 1) : ~EditionMatchAt(n, s, h)
         IN  SubSeq(s, 1, start - 1)
    ELSE s

\* len(patterns)
NumPatterns == 8

RECURSIVE StripEditions_first_match(_, _)
\* a loop over the patterns that stops at the first pattern that matched
StripEditions_first_match(n, s) ==
    IF n > NumPatterns THEN s
    ELSE IF StripEdition(n, s) # s THEN StripEdition(n, s)
    ELSE StripEditions_first_match(n + 1, s)

RECURSIVE StripEditions(_, _)
\* the loop over patterns, from pattern n on
StripEditions(n, s) ==
    IF n > NumPatterns THEN s ELSE StripEditions(n + 1, StripEdition(n, s))

\* _extract_base_title without its first two patterns (the "complete" ones)
_extract_base_title_from_third(t) == str_strip(StripEditions(3, t))

_extract_base_title(t) == str_strip(StripEditions(1, t))

(***************************************************************************)
(* main.levenshtein_distance and main.is_similar_title                     *)
(***************************************************************************)
Neq(a, b) == IF a # b THEN 1 ELSE 0

RECURSIVE LevCurrRow(_, _, _, _, _)
\* the inner loop: curr_row extended from s2's j-th character on
LevCurrRow(prev_row, curr_row, c1, s2, j) ==
    IF j > Len(s2) THEN curr_row
    ELSE LET insertions    == prev_row[j + 1] + 1
             deletions     == curr_row[j] + 1
             substitutions == prev_row[j] + Neq(c1, s2[j])
         IN  LevCurrRow(prev_row,
                        Append(curr_row, Min(insertions, Min(deletions, substitutions))),
                        c1, s2, j + 1)

RECURSIVE LevRows_row_from_index(_, _, _, _)
\* the outer loop with each row started at the index of the character instead
\* of the index plus one
LevRows_row_from_index(prev_row, s1, s2, i) ==
    IF i > Len(s1) THEN prev_row
    ELSE LET curr_row == LevCurrRow(prev_row, <<i - 1>>, s1[i], s2, 1)
         IN  CASE Len(curr_row) = Len(s2) + 1 ->
                 LevRows_row_from_index(curr_row, s1, s2, i + 1)

RECURSIVE LevRows(_, _, _, _)
\* the outer loop: prev_row after s1's characters from the i-th on
LevRows(prev_row, s1, s2, i) ==
    IF i > Len(s1) THEN prev_row
    ELSE LET curr_row == LevCurrRow(prev_row, <<i>>, s1[i], s2, 1)
         IN  \* a row holds one cell per character of s2, and one more
             CASE Len(curr_row) = Len(s2) + 1 -> LevRows(curr_row, s1, s2, i + 1)

levenshtein_distance(a, b) ==
    LET s1 == IF Len(a) < Len(b) THEN b ELSE a
        s2 == IF Len(a) < Len(b) THEN a ELSE b
    IN  IF s2 = <<>> THEN Len(s1)
        ELSE LET last == LevRows([j \in 1..(Len(s2) + 1) |-> j - 1], s1, s2, 1)
             IN  last[Len(last)]

\* A Python float is an IEEE 754 binary64 number: 53 significant bits, every
\* operation rounded to the nearest, ties to even.  The floats of
\* is_similar_title lie in [0, 1]; such a float is written as a sequence of
\* FloatWidth bits, the first one before the binary point.
SignificantBits == 53
FloatWidth == 64

RECURSIVE LongDivision(_, _, _)
\* long division in base 2: bits holds the bits found so far and r is the
\* remainder they leave; the result is the first FloatWidth bits of the
\* quotient, and whether non-zero bits follow them
LongDivision(r, m, bits) ==
    IF Len(bits) = FloatWidth THEN [bits |-> bits, sticky |-> r # 0]
    ELSE LET more == Append(bits, (2 * r) \div m)
             left == (2 * r) % m
         IN  CASE Len(more) > 0 /\ left >= 0 -> LongDivision(left, m, more)

\* bits, followed by a non-zero tail when sticky holds, rounded to
\* SignificantBits bits
RoundBits(bits, sticky) ==
    IF \A k \in 1..FloatWidth : bits[k] = 0 THEN bits
    ELSE LET lead == CHOOSE k \in 1..FloatWidth :
                         bits[k] = 1 /\ \A h \in 1..(k - 1) : bits[h] = 0
             last == lead + SignificantBits - 1
         IN  IF last >= FloatWidth THEN bits
             ELSE LET tail == sticky \/ \E k \in (last + 2)..FloatWidth : bits[k] = 1
                      up   == bits[last + 1] = 1 /\ (tail \/ bits[last] = 1)
                      kept == [k \in 1..FloatWidth |-> IF k <= last THEN bits[k] ELSE 0]
                  IN  IF ~up THEN kept
                      ELSE LET carry == CHOOSE k \in 1..last :
                                            kept[k] = 0 /\ \A h \in (k + 1)..last : kept[h] = 1
                           IN  [k \in 1..FloatWidth |->
                                   IF k < carry THEN kept[k]
                                   ELSE IF k = carry THEN 1 ELSE 0]

\* the float n / m, for 0 <= n <= m
FloatDiv(n, m) ==
    LET quotient == LongDivision(n % m, m, <<n \div m>>)
    IN  RoundBits(quotient.bits, quotient.sticky)

\* the float 1 - x, for a float x of [0, 1]
FloatOneMinus(x) ==
    IF \A k \in 1..FloatWidth : x[k] = 0
    THEN [k \in 1..FloatWidth |-> IF k = 1 THEN 1 ELSE 0]
    ELSE IF x[1] = 1 THEN [k \in 1..FloatWidth |-> 0]
    ELSE LET low == CHOOSE k \in 1..FloatWidth :
                        x[k] = 1 /\ \A h \in (k + 1)..FloatWidth : x[h] = 0
             difference == [k \in 1..FloatWidth |->
                               IF k = 1 THEN 0
                               ELSE IF k < low THEN 1 - x[k]
                               ELSE IF k = low THEN 1 ELSE 0]
         IN  RoundBits(difference, FALSE)

\* x >= y, for floats of [0, 1]
FloatGE(x, y) ==
    \/ x = y
    \/ \E k \in 1..FloatWidth :
          x[k] = 1 /\ y[k] = 0 /\ \A h \in 1..(k - 1) : x[h] = y[h]

\* the float a literal of t hundredths denotes (0.85 for 85)
Hundredths(t) == FloatDiv(t, 100)

\* the default threshold 0.85, in hundredths
DefaultThreshold == 85
\* the shortest title the fuzzy comparison accepts
MinFuzzyLen == 5

\* is_similar_title without the length floor
is_similar_title_no_floor(title1, title2, threshold) ==
    IF title1 = <<>> \/ title2 = <<>> THEN FALSE
    ELSE IF title1 = title2 THEN TRUE
    ELSE LET distance == levenshtein_distance(title1, title2)
             max_len  == Max(Len(title1), Len(title2))
             ratio    == FloatOneMinus(FloatDiv(distance, max_len))
         IN  FloatGE(ratio, Hundredths(threshold))

\* is_similar_title with the length floor tested before the equality
is_similar_title_floor_first(title1, title2, threshold) ==
    IF title1 = <<>> \/ title2 = <<>> THEN FALSE
    ELSE IF Len(title1) < MinFuzzyLen \/ Len(title2) < MinFuzzyLen THEN FALSE
    ELSE IF title1 = title2 THEN TRUE
    ELSE LET distance == levenshtein_distance(title1, title2)
             max_len  == Max(Len(title1), Len(title2))
             ratio    == FloatOneMinus(FloatDiv(distance, max_len))
         IN  FloatGE(ratio, Hundredths(threshold))

\* is_similar_title(title1, title2, threshold); threshold is in hundredths
is_similar_title(title1, title2, threshold) ==
    IF title1 = <<>> \/ title2 = <<>> THEN FALSE
    ELSE IF title1 = title2 THEN TRUE
    ELSE IF Len(title1) < MinFuzzyLen \/ Len(title2) < MinFuzzyLen THEN FALSE
    ELSE LET distance == levenshtein_distance(title1, title2)
             max_len  == Max(Len(title1), Len(title2))
             ratio    == FloatOneMinus(FloatDiv(distance, max_len))
         IN  FloatGE(ratio, Hundredths(threshold))

(***************************************************************************)
(* The title functions applied to bounded inputs.                          *)
(***************************************************************************)
\* a title is made of at most MaxPieces pieces
MaxPieces == 3

\* the pieces titles are made of: articles of both languages, the series
\* prefixes, the possessive marker, punctuation, a short and a long word
Pieces ==
    { <<"t","h","e"," ">>,
      <<"T","h","e"," ">>,
      <<"l","a"," ">>,
      <<"g","w","e","n","d","y","'","s"," ">>,
      <<"d","a","r","k"," ","t","o","w","e","r"," ","i","v",":"," ">>,
      <<"t","o","u","r"," ","s","o","m","b","r","e"," ","v"," ",":"," ">>,
      <<"s","t","a","n","d">>,
      <<"-"," ">>,
      <<"i","t">> }

RECURSIVE Flatten(_)
Flatten(ps) == IF ps = <<>> THEN <<>> ELSE Head(ps) \o Flatten(Tail(ps))

TitleInputs == { Flatten(ps) : ps \in UNION { [1..k -> Pieces] : k \in 0..MaxPieces } }

\* what a title is compared with, besides itself
OtherInputs ==
    { <<>>,
      <<"i","t">>,
      <<"s","t","a","n","d">>,
      <<"s","t","a","n","t">> }

MergeIdle ==
    /\ mpc = "idle" /\ sources = <<>> /\ heap = <<>> /\ heap0 = <<>>
    /\ existing_titles = {} /\ existing_titles0 = {} /\ existing_normalized = {}
    /\ all_books = <<>> /\ order = <<>> /\ pos = 0 /\ skipped = {} /\ result = <<>>

WikiIdle ==
    /\ wpc = "idle" /\ rows = <<>> /\ ri = 0 /\ current_year = 0
    /\ books = <<>> /\ trace = <<>>

TitleIdle ==
    /\ tpc = "idle" /\ title = <<>> /\ other = <<>> /\ key = <<>>
    /\ rekey = <<>> /\ mkey = <<>> /\ sim = FALSE

MatchIdle ==
    /\ cpc = "idle" /\ arg1 = <<>> /\ arg2 = <<>> /\ arg_threshold = 0
    /\ dist = 0 /\ dist_swapped = 0 /\ similar = FALSE

BaseIdle ==
    /\ bpc = "idle" /\ bkey = <<>> /\ base = <<>> /\ rebase = <<>>

MainIdle ==
    /\ fpc = "idle" /\ run_titles = {} /\ run_normalized = {} /\ candidates = <<>>
    /\ fi = 0 /\ added_books = <<>> /\ sheet = <<>> /\ flow = <<>>

RetryIdle ==
    /\ rpc = "idle" /\ prompt = "" /\ attempt = 0 /\ calls = <<>> /\ slept = <<>>
    /\ outcome = <<>>

InitTitle ==
    /\ tpc = "input"
    /\ title \in TitleInputs
    /\ other \in OtherInputs \cup {title}
    /\ key = <<>> /\ rekey = <<>> /\ mkey = <<>> /\ sim = FALSE
    /\ MergeIdle /\ WikiIdle /\ MatchIdle /\ BaseIdle /\ MainIdle /\ RetryIdle

\* both normalisers applied to the title, and normalize_title to its own result
NormalizeTitle ==
    /\ tpc = "input"
    /\ key' = normalize_title(title)
    /\ rekey' = normalize_title(key')
    /\ mkey' = _normalize(title)
    /\ tpc' = "normalized"
    /\ UNCHANGED <<title, other, sim, mergeVars, wikiVars, matchVars, baseVars,
                   mainVars, retryVars>>

\* is_similar_title(title, other) with the default threshold
CompareTitles ==
    /\ tpc = "normalized"
    /\ sim' = is_similar_title(title, other, DefaultThreshold)
    /\ tpc' = "done"
    /\ UNCHANGED <<title, other, key, rekey, mkey, mergeVars, wikiVars, matchVars, baseVars,
                   mainVars, retryVars>>

NextTitle == NormalizeTitle \/ CompareTitles

SpecTitle == InitTitle /\ [][NextTitle]_vars

(***************************************************************************)
(* Claims about the title functions (checked under SpecTitle).             *)
(***************************************************************************)
\* the key begins with the possessive marker, which a second pass strips
BeginsWithGwendy(k) == MatchAt(k, 1, <<"g","w","e","n","d","y">>)

\* the key begins with an article of either language and a space
BeginsWithArticle(k) ==
    \E a \in TitleArticles : MatchAt(k, 1, a \o <<" ">>)

\* C1, as stated: normalize_title is idempotent, for every title:
\* normalize_title(normalize_title(x)) = normalize_title(x).
C1_NormalizeIdempotent ==
    tpc \in {"normalized", "done"} => rekey = key

\* C1, amended: normalize_title(normalize_title(x)) = normalize_title(x) exactly
\* when the key normalize_title(x) begins neither with "gwendy" nor with an
\* article followed by a space; lowercasing, the removal of punctuation and the
\* collapsing of white space are stable, and a key holds no colon, so that no
\* series prefix is stripped from it.
C1_NormalizeIdempotentOnPlainKeys ==
    tpc \in {"normalized", "done"} =>
        (rekey = key <=> ~(BeginsWithGwendy(key) \/ BeginsWithArticle(key)))

\* a title that lost an article and punctuation, whose key a second pass keeps
C1_Witness ==
    /\ tpc = "normalized"
    /\ key # <<>>
    /\ Len(key) + 4 < Len(title)
    /\ \E i \in 1..Len(title) : title[i] = "-"
    /\ ~(BeginsWithGwendy(key) \/ BeginsWithArticle(key))
    /\ rekey = key

\* C2, as stated: is_similar_title(s, s) is true for every string s, the empty
\* string included.
C2_SimilarReflexive ==
    (tpc = "done" /\ other = title) => sim

\* C2, amended: is_similar_title(s, s) is true for every non-empty string s,
\* strings shorter than 5 characters included; it is false for the empty string.
C2_SimilarReflexiveNonEmpty ==
    (tpc = "done" /\ other = title) => (sim <=> title # <<>>)

\* a string of fewer than 5 characters compared with itself
C2_Witness ==
    /\ tpc = "done"
    /\ other = title
    /\ title # <<>>
    /\ Len(title) < MinFuzzyLen
    /\ sim

\* C4: the merger's key is the Title Normalizer's key:
\* BookMerger._normalize(t) = normalize_title(t) for every title t.
C4_MergerUsesTitleNormalizer ==
    tpc \in {"normalized", "done"} => mkey = key

(***************************************************************************)
(* The distance and the matcher applied to pairs of strings.               *)
(***************************************************************************)
\* a generated word has at most MaxWord letters
MaxWord == 3

\* every word over the letters a and b
Words == UNION { [1..n -> {"a", "b"}] : n \in 0..MaxWord }

\* titles of the program's domain: a case variant below the length floor,
\* a pair one substitution apart, a pair four substitutions apart
NamedTitles ==
    { <<"i","t">>,
      <<"I","t">>,
      <<"s","t","a","n","d">>,
      <<"s","t","a","n","t">>,
      <<"c","l","o","u","d">>,
      <<"T","h","e"," ","S","h","i","n","i","n","g">>,
      <<"T","h","e"," ","S","h","i","m","i","n","g">> }

MatchInputs == Words \cup NamedTitles

\* thresholds a caller may pass, in hundredths: 0.2, 0.8 and the default
Thresholds == {20, 80, DefaultThreshold}

InitMatch ==
    /\ cpc = "input"
    /\ arg1 \in MatchInputs
    /\ arg2 \in MatchInputs
    /\ arg_threshold \in Thresholds
    /\ dist = 0 /\ dist_swapped = 0 /\ similar = FALSE
    /\ TitleIdle /\ MergeIdle /\ WikiIdle /\ BaseIdle /\ MainIdle /\ RetryIdle

\* levenshtein_distance on the pair, in both orders
MeasurePair ==
    /\ cpc = "input"
    /\ dist' = levenshtein_distance(arg1, arg2)
    /\ dist_swapped' = levenshtein_distance(arg2, arg1)
    /\ cpc' = "measured"
    /\ UNCHANGED <<arg1, arg2, arg_threshold, similar, titleVars, mergeVars, wikiVars,
                   baseVars, mainVars, retryVars>>

\* is_similar_title on the pair
ComparePair ==
    /\ cpc = "measured"
    /\ similar' = is_similar_title(arg1, arg2, arg_threshold)
    /\ cpc' = "done"
    /\ UNCHANGED <<arg1, arg2, arg_threshold, dist, dist_swapped, titleVars, mergeVars,
                   wikiVars, baseVars, mainVars, retryVars>>

NextMatch == MeasurePair \/ ComparePair

SpecMatch == InitMatch /\ [][NextMatch]_vars

(***************************************************************************)
(* Claims about the distance and the matcher (checked under SpecMatch).    *)
(***************************************************************************)
\* C12: is_similar_title is false whenever either argument is empty, and
\* whenever the arguments differ and at least one of them has fewer than 5
\* characters, whatever their edit distance; is_similar_title("it", "It") is
\* false.
C12_FloorRejects ==
    cpc = "done" =>
        /\ (arg1 = <<>> \/ arg2 = <<>>) => ~similar
        /\ (arg1 # arg2 /\ (Len(arg1) < 5 \/ Len(arg2) < 5)) => ~similar
        /\ (arg1 = <<"i","t">> /\ arg2 = <<"I","t">>) => ~similar

\* "it" and "It" compared at a threshold their ratio (1 - 1/2) passes
C12_Witness ==
    /\ cpc = "done"
    /\ arg1 = <<"i","t">> /\ arg2 = <<"I","t">>
    /\ dist = 1
    /\ 100 * (2 - dist) >= arg_threshold * 2
    /\ ~similar

Edits(s, alphabet) ==
    { SubSeq(s, 1, i - 1) \o SubSeq(s, i + 1, Len(s)) : i \in 1..Len(s) }
    \cup { [s EXCEPT ![x[1]] = x[2]] : x \in (1..Len(s)) \X alphabet }
    \cup { SubSeq(s, 1, x[1]) \o <<x[2]>> \o SubSeq(s, x[1] + 1, Len(s)) :
              x \in (0..Len(s)) \X alphabet }

RECURSIVE EditsToReach(_, _, _, _, _)
\* the least number of edits that lead from a string of reached to target,
\* k being spent already; intermediate strings longer than cap are left out
\* (a shortest edit script needs none: it may substitute and delete before
\* it inserts)
EditsToReach(reached, target, k, alphabet, cap) ==
    IF target \in reached THEN k
    ELSE LET more == reached \cup
                     { t \in UNION { Edits(s, alphabet) : s \in reached } : Len(t) <= cap }
         IN  CASE Cardinality(more) > 0 ->
                 EditsToReach(more, target, k + 1, alphabet, cap)

\* the letters of s
Letters(s) == { s[i] : i \in 1..Len(s) }

\* the edit distance by its definition: the length of a shortest sequence of
\* single-character insertions, deletions and substitutions from a to b
EditDistance(a, b) ==
    EditsToReach({a}, b, 0, Letters(a) \cup Letters(b), Max(Len(a), Len(b)))

\* a and b are one insertion, deletion or substitution apart
OneEditApart(a, b) == a # b /\ b \in Edits(a, Letters(b))

\* C19: levenshtein_distance(s1, s2) is the classic edit distance, for every
\* pair of strings, an empty argument included, and in either order of the
\* arguments.  The equality with the distance by definition is checked on the
\* pairs of short strings; on every pair, the distance is symmetric, lies
\* between the difference of the lengths and the greater length, is 0 on
\* equal strings only, and is 1 on the strings one edit apart only.
C19_ClassicDistance ==
    cpc \in {"measured", "done"} =>
        /\ dist = dist_swapped
        /\ (Len(arg1) <= MaxWord /\ Len(arg2) <= MaxWord)
              => dist = EditDistance(arg1, arg2)
        /\ (arg1 = <<>>) => dist = Len(arg2)
        /\ (arg2 = <<>>) => dist = Len(arg1)
        /\ dist = 0 <=> arg1 = arg2
        /\ dist = 1 <=> OneEditApart(arg1, arg2)
        /\ dist >= Len(arg1) - Len(arg2)
        /\ dist >= Len(arg2) - Len(arg1)
        /\ dist <= Max(Len(arg1), Len(arg2))

\* a pair of different lengths, the shorter string first, that takes an
\* insertion and a substitution
C19_Witness ==
    /\ cpc = "measured"
    /\ arg1 = <<"a","b">>
    /\ arg2 = <<"b","b","a">>
    /\ dist = 2
    /\ dist_swapped = 2

(***************************************************************************)
(* The edition stripper applied to normalized keys.                        *)
(***************************************************************************)
\* a key carries at most MaxSuffixes suffix pieces after its base
MaxSuffixes == 3

\* the pieces a key is extended with: the words of the edition patterns, on
\* their own or joined, and a plain word
SuffixPieces ==
    { <<" ","t","h","e">>,
      <<" ","c","o","m","p","l","e","t","e">>,
      <<" ","a","n","d">>,
      <<" ","u","n","c","u","t">>,
      <<" ","e","d","i","t","i","o","n">>,
      <<" ","s","p","e","c","i","a","l">>,
      <<" ","d","i","r","e","c","t","o","r","s"," ","c","u","t">>,
      <<" ","2","0","2","0">>,
      <<" ","u","n","c","u","t","e","d","i","t","i","o","n">>,
      <<" ","s","t","a","n","d">> }

\* lowercase, punctuation-free, single-spaced keys
BaseInputs ==
    { <<"s","t","a","n","d">> \o Flatten(ps) :
          ps \in UNION { [1..k -> SuffixPieces] : k \in 0..MaxSuffixes } }

InitBase ==
    /\ bpc = "input"
    /\ bkey \in BaseInputs
    /\ base = <<>> /\ rebase = <<>>
    /\ TitleIdle /\ MergeIdle /\ WikiIdle /\ MatchIdle /\ MainIdle /\ RetryIdle

\* _extract_base_title applied to the key, and to its own result
ExtractBase ==
    /\ bpc = "input"
    /\ base' = _extract_base_title(bkey)
    /\ rebase' = _extract_base_title(base')
    /\ bpc' = "done"
    /\ UNCHANGED <<bkey, titleVars, mergeVars, wikiVars, matchVars, mainVars, retryVars>>

NextBase == ExtractBase

SpecBase == InitBase /\ [][NextBase]_vars

(***************************************************************************)
(* Claims about the edition stripper (checked under SpecBase).             *)
(***************************************************************************)
\* some edition pattern matches somewhere in s
HasEditionSuffix(s) ==
    \E n \in 1..NumPatterns : \E i \in 1..Len(s) : EditionMatchAt(n, s, i)

\* C14: _extract_base_title is idempotent on normalized keys:
\* _extract_base_title(_extract_base_title(k)) = _extract_base_title(k) for
\* every lowercase, punctuation-free, single-spaced key k, also when k carries
\* several edition suffixes in any order; no pattern matches in the result.
C14_BaseIdempotent ==
    bpc = "done" => (rebase = base /\ ~HasEditionSuffix(base))

\* a key with two edition suffixes, the one of the later pattern first
C14_Witness ==
    /\ bpc = "done"
    /\ bkey = <<"s","t","a","n","d">>
                \o <<" ","d","i","r","e","c","t","o","r","s"," ","c","u","t">>
                \o <<" ","t","h","e">> \o <<" ","c","o","m","p","l","e","t","e">>
    /\ base = <<"s","t","a","n","d">>
    /\ rebase = base

(***************************************************************************)
(* BookMerger (services/merger.py)                                         *)
(***************************************************************************)
\* _is_existing, with the tier that answers: 1 the key is known, 2 the key's
\* base title is known, 3 the base title is the base title of a known key and
\* is longer than 3 characters, 0 none (the title is not known)
ExistingTier(normalized_key, existing_norm) ==
    LET base_title == _extract_base_title(normalized_key)
    IN  IF normalized_key \in existing_norm THEN 1
        ELSE IF base_title # normalized_key /\ base_title \in existing_norm THEN 2
        ELSE IF \E existing \in existing_norm :
                    base_title = _extract_base_title(existing) /\ Len(base_title) > 3
             THEN 3
        ELSE 0

\* _is_existing that only looks the key up
_is_existing_exact(normalized_key, existing_norm) == normalized_key \in existing_norm

_is_existing(normalized_key, existing_norm) ==
    ExistingTier(normalized_key, existing_norm) # 0

\* Python truth of a field's value: an empty str, 0 and False are falsy
Falsy(field, value) ==
    CASE field \in {"Titre_VO", "Raw_Info"} -> value = <<>>
      [] field = "Annee_VO" -> value = 0
      [] field \in {"Is_Duplicate_or_Ignore", "Is_Bachman"} -> value = FALSE
      [] OTHER -> value = ""

\* _merge_book_data that lets the incoming record win every field it holds
_merge_book_data_overwrite(existing, new) ==
    [k \in DOMAIN existing \cup DOMAIN new |->
        IF k \in DOMAIN new THEN new[k] ELSE existing[k]]

\* _merge_book_data(existing, new): the dict existing is afterwards
_merge_book_data(existing, new) ==
    [k \in DOMAIN existing \cup DOMAIN new |->
        IF k \notin DOMAIN new THEN existing[k]
        ELSE IF k \notin DOMAIN existing \/ Falsy(k, existing[k]) THEN new[k]
        ELSE IF k = "Raw_Info" /\ ~Falsy(k, new[k]) /\ Len(new[k]) > Len(existing[k])
             THEN new[k]
        ELSE existing[k]]

\* book.get("Titre_VO", "")
BookTitle(book) == IF "Titre_VO" \in DOMAIN book THEN book.Titre_VO ELSE <<>>

\* a key that is the title as it stands
BookKey_raw(book) == BookTitle(book)

\* key = self._normalize(title)
BookKey(book) == _normalize(BookTitle(book))

\* the records of all the sources, in the order the two loops visit them
RECURSIVE Chain(_)
Chain(lists) == IF lists = <<>> THEN <<>> ELSE Head(lists) \o Chain(Tail(lists))

(***************************************************************************)
(* The inputs of merge.                                                    *)
(***************************************************************************)
\* at most MaxRecords records in all, in at most MaxSources sources
MaxRecords == 3
MaxSources == 2

RecStandWiki ==
    [Titre_VO |-> <<"T","h","e"," ","S","t","a","n","d">>, Annee_VO |-> 1978, Raw_Info |-> <<>>,
     Is_Duplicate_or_Ignore |-> FALSE, Source |-> "Wikipedia"]
RecStandGemini ==
    [Titre_VO |-> <<"t","h","e"," ","s","t","a","n","d","!">>, Annee_VO |-> 0, Raw_Info |-> <<"u","n","c","u","t">>,
     Is_Duplicate_or_Ignore |-> TRUE]
RecStandBare ==
    [Titre_VO |-> <<"S","t","a","n","d">>, Raw_Info |-> <<"x">>, Annee_VO |-> 1990]
RecUntitled ==
    [Titre_VO |-> <<>>, Annee_VO |-> 1977, Raw_Info |-> <<"n","o"," ","t","i","t","l","e">>,
     Is_Duplicate_or_Ignore |-> FALSE]
RecNoTitleField ==
    [Annee_VO |-> 1977, Raw_Info |-> <<"n","o"," ","t","i","t","l","e">>]
RecIt ==
    [Titre_VO |-> <<"I","t">>, Annee_VO |-> 1986, Raw_Info |-> <<>>,
     Is_Duplicate_or_Ignore |-> FALSE, Source |-> "Wikipedia"]
RecFleauPlain ==
    [Titre_VO |-> <<"L","e"," ","F","l","e","a","u",":"," ","C","o","m","p","l","e","t","e"," ","&"," ","U","n","c","u","t"," ","E","d","i","t","i","o","n">>, Annee_VO |-> 1990, Raw_Info |-> <<>>,
     Is_Duplicate_or_Ignore |-> FALSE]
RecFleauAccent ==
    [Titre_VO |-> <<"L","e"," ","F","l","é","a","u",":"," ","C","o","m","p","l","e","t","e"," ","&"," ","U","n","c","u","t"," ","E","d","i","t","i","o","n">>, Annee_VO |-> 1990, Raw_Info |-> <<>>,
     Is_Duplicate_or_Ignore |-> FALSE]

TitleLeFleau == <<"L","e"," ","F","l","é","a","u">>
TitleStandSpecial == <<"T","h","e"," ","S","t","a","n","d",":"," ","S","p","e","c","i","a","l"," ","E","d","i","t","i","o","n">>
TitleItSpecial == <<"I","t",":"," ","S","p","e","c","i","a","l"," ","E","d","i","t","i","o","n">>

\* the keys "le fleau complete uncut edition" and "le fléau complete uncut edition"
KeyFleauPlain == <<"l","e"," ","f","l","e","a","u"," ","c","o","m","p","l","e","t","e"," ","u","n","c","u","t"," ","e","d","i","t","i","o","n">>
KeyFleauAccent == <<"l","e"," ","f","l","é","a","u"," ","c","o","m","p","l","e","t","e"," ","u","n","c","u","t"," ","e","d","i","t","i","o","n">>

\* a known-title set with the records the sources draw from
Scenarios ==
    { [known |-> {}, pool |-> {RecStandWiki, RecStandGemini, RecStandBare, RecNoTitleField}],
      [known |-> {TitleLeFleau},
       pool |-> {RecFleauPlain, RecFleauAccent, RecStandWiki, RecStandGemini}],
      [known |-> {TitleStandSpecial, TitleItSpecial},
       pool |-> {RecStandWiki, RecIt, RecUntitled, RecFleauAccent}] }

\* the lists of at most n records of pool
RecordLists(pool, n) == UNION { [1..k -> pool] : k \in 0..n }

\* the ways of cutting references 1..len into n consecutive lists
Splits(len, n) ==
    { [i \in 1..n |-> [j \in 1..(c[i + 1] - c[i]) |-> c[i] + j]] :
        c \in { d \in [1..(n + 1) -> 0..len] :
                  /\ d[1] = 0
                  /\ d[n + 1] = len
                  /\ \A i \in 1..n : d[i] <= d[i + 1] } }

Init ==
    /\ mpc = "start"
    /\ \E sc \in Scenarios :
          /\ existing_titles = sc.known
          /\ heap \in RecordLists(sc.pool, MaxRecords)
    /\ sources \in UNION { Splits(Len(heap), n) : n \in 1..MaxSources }
    /\ heap0 = heap
    /\ existing_titles0 = existing_titles
    /\ existing_normalized = {}
    /\ all_books = <<>>
    /\ order = <<>>
    /\ pos = 0
    /\ skipped = {}
    /\ result = <<>>
    /\ TitleIdle /\ WikiIdle /\ MatchIdle /\ BaseIdle /\ MainIdle /\ RetryIdle

\* the reference the loops are at
CurrentRef == Chain(sources)[pos + 1]

\* merge, up to the loops: the projection of the known titles and the empty dict
MergeBegin ==
    /\ mpc = "start"
    /\ existing_normalized' = { _normalize(t) : t \in existing_titles }
    /\ all_books' = <<>>
    /\ mpc' = "loop"
    /\ UNCHANGED <<sources, heap, heap0, existing_titles, existing_titles0, order,
                   pos, skipped, result, titleVars, wikiVars, matchVars, baseVars,
                   mainVars, retryVars>>

\* a pass of the inner loop is at hand
InLoop == mpc = "loop" /\ pos < Len(Chain(sources))

\* what a pass that does not return leaves as it is
LoopFrame ==
    UNCHANGED <<mpc, sources, heap0, existing_titles, existing_titles0,
                existing_normalized, result, titleVars, wikiVars, matchVars, baseVars,
                   mainVars, retryVars>>

\* a pass over a record without a title: if not title: continue
SkipUntitled ==
    /\ InLoop
    /\ BookTitle(heap[CurrentRef]) = <<>>
    /\ pos' = pos + 1
    /\ UNCHANGED <<heap, all_books, order, skipped>>
    /\ LoopFrame

\* a pass over a known title: if self._is_existing(key, ...): continue
SkipExisting ==
    /\ InLoop
    /\ BookTitle(heap[CurrentRef]) # <<>>
    /\ _is_existing(BookKey(heap[CurrentRef]), existing_normalized)
    /\ skipped' = skipped \cup
           {<<CurrentRef, ExistingTier(BookKey(heap[CurrentRef]), existing_normalized)>>}
    /\ pos' = pos + 1
    /\ UNCHANGED <<heap, all_books, order>>
    /\ LoopFrame

\* a pass over the first record of a key: all_books[key] = book
AddBook ==
    /\ InLoop
    /\ BookTitle(heap[CurrentRef]) # <<>>
    /\ LET k == BookKey(heap[CurrentRef])
       IN  /\ ~_is_existing(k, existing_normalized)
           /\ k \notin DOMAIN all_books
           /\ all_books' = [x \in DOMAIN all_books \cup {k} |->
                                IF x = k THEN CurrentRef ELSE all_books[x]]
           /\ order' = Append(order, k)
    /\ pos' = pos + 1
    /\ UNCHANGED <<heap, skipped>>
    /\ LoopFrame

\* a pass over a later record of a key:
\* self._merge_book_data(all_books[key], book) writes to the dict all_books holds,
\* which is the dict of the source list
MergeInto ==
    /\ InLoop
    /\ BookTitle(heap[CurrentRef]) # <<>>
    /\ LET k == BookKey(heap[CurrentRef])
       IN  /\ ~_is_existing(k, existing_normalized)
           /\ k \in DOMAIN all_books
           /\ heap' = [heap EXCEPT ![all_books[k]] =
                           _merge_book_data(heap[all_books[k]], heap[CurrentRef])]
    /\ pos' = pos + 1
    /\ UNCHANGED <<all_books, order, skipped>>
    /\ LoopFrame

\* result = list(all_books.values()); return result
MergeReturn ==
    /\ mpc = "loop"
    /\ pos = Len(Chain(sources))
    /\ result' = [i \in 1..Len(order) |-> all_books[order[i]]]
    /\ mpc' = "done"
    /\ UNCHANGED <<sources, heap, heap0, existing_titles, existing_titles0,
                   existing_normalized, all_books, order, pos, skipped, titleVars, wikiVars, matchVars, baseVars,
                   mainVars, retryVars>>

Next ==
    \/ MergeBegin
    \/ SkipUntitled
    \/ SkipExisting
    \/ AddBook
    \/ MergeInto
    \/ MergeReturn

Spec == Init /\ [][Next]_vars

(***************************************************************************)
(* Claims about BookMerger.merge (checked under Spec).                     *)
(***************************************************************************)
\* the normalized projection of the known titles merge was called with
KnownKeys0 == { _normalize(t) : t \in existing_titles0 }

\* the key of the record reference r held when merge was called
Key0(r) == _normalize(BookTitle(heap0[r]))

\* the record r held a title, and the existence filter lets its key through
Survives(r) ==
    /\ BookTitle(heap0[r]) # <<>>
    /\ ~_is_existing(Key0(r), KnownKeys0)

\* the key of the i-th record of the output
OutKey(i) == _normalize(BookTitle(heap[result[i]]))

\* the surviving records of key k, which the output record of key k is merged from
Contributors(k) == { r \in 1..Len(heap0) : Survives(r) /\ Key0(r) = k }

\* the index of the source list that holds reference r
SourceOf(r) == CHOOSE n \in 1..Len(sources) : \E j \in 1..Len(sources[n]) : sources[n][j] = r

\* C3: the output of merge holds exactly one record per key: every input record
\* with a non-empty title that passes the existence filter is represented by
\* exactly one output record of its key, no two output records share a key, and
\* every output record stands for such an input record.
C3_OneRecordPerKey ==
    mpc = "done" =>
        /\ \A r \in 1..Len(heap0) :
              Survives(r) =>
                  Cardinality({ i \in 1..Len(result) : OutKey(i) = Key0(r) }) = 1
        /\ \A i, j \in 1..Len(result) : i # j => OutKey(i) # OutKey(j)
        /\ \A i \in 1..Len(result) : Contributors(OutKey(i)) # {}

\* three surviving records of two keys, from two sources, merged into two
C3_Witness ==
    /\ mpc = "done"
    /\ Len(heap0) = 3
    /\ \A r \in 1..3 : Survives(r)
    /\ Len(sources) = 2 /\ sources[1] # <<>> /\ sources[2] # <<>>
    /\ Len(result) = 2
    /\ Key0(1) = Key0(3) /\ Key0(1) # Key0(2)

\* C5, as stated: with the known titles {"Le Fléau"}, a candidate whose key is
\* "le fleau complete uncut edition" is found existing through the base-title
\* tier, and merge leaves it out of its output.
C5_PlainKeyExcluded ==
    (mpc = "done" /\ existing_titles0 = {TitleLeFleau}) =>
        \A r \in 1..Len(heap0) :
            Key0(r) = KeyFleauPlain =>
                /\ <<r, 2>> \in skipped
                /\ \A i \in 1..Len(result) : result[i] # r

\* C5, amended: with the known titles {"Le Fléau"}, a candidate whose key is
\* "le fléau complete uncut edition" (the accent kept, as _normalize keeps it on
\* both sides) is found existing through the base-title tier, and merge leaves
\* it out of its output.
C5_AccentedKeyExcluded ==
    (mpc = "done" /\ existing_titles0 = {TitleLeFleau}) =>
        \A r \in 1..Len(heap0) :
            Key0(r) = KeyFleauAccent =>
                /\ <<r, 2>> \in skipped
                /\ \A i \in 1..Len(result) : OutKey(i) # KeyFleauAccent

\* the accented candidate met, and skipped by the base-title tier
C5_Witness ==
    /\ mpc = "done"
    /\ existing_titles0 = {TitleLeFleau}
    /\ \E r \in 1..Len(heap0) : Key0(r) = KeyFleauAccent /\ <<r, 2>> \in skipped
    /\ result # <<>>

\* C6: no record of the output matches the known titles: its key k is not a
\* known key, its base title b (when it differs from k) is not a known key, and
\* b is not the base title of a known key when b is longer than 3 characters.
C6_OutputNotKnown ==
    mpc = "done" =>
        \A i \in 1..Len(result) :
            LET k == OutKey(i)
                b == _extract_base_title(k)
            IN  /\ k \notin KnownKeys0
                /\ (b # k => b \notin KnownKeys0)
                /\ (Len(b) > 3 => \A e \in KnownKeys0 : b # _extract_base_title(e))

\* a run that skipped a record through the third tier and returned another
\* whose short base title is the base title of a known key
C6_Witness ==
    /\ mpc = "done"
    /\ \E p \in skipped : p[2] = 3
    /\ \E i \in 1..Len(result) :
          \E e \in KnownKeys0 : _extract_base_title(OutKey(i)) = _extract_base_title(e)

\* C7: merge has no side effect on its inputs: the records of the source lists
\* and the known-title set are afterwards what they were before the call.
C7_InputsUntouched ==
    mpc = "done" => (heap = heap0 /\ existing_titles = existing_titles0)

\* the field f of record r was set and truthy when merge was called
HadValue(r, f) == f \in DOMAIN heap0[r] /\ ~Falsy(f, heap0[r][f])

\* the fields of the records
RecordFields == {"Titre_VO", "Annee_VO", "Raw_Info", "Is_Duplicate_or_Ignore", "Source"}

\* C8: the record merged from the records of one key has a Raw_Info of the
\* greatest length among the contributors' notes, and every other field that is
\* non-empty (truthy) in a contributor is non-empty in it and is the first
\* non-empty value in processing order.
C8_MergedFields ==
    mpc = "done" =>
        \A i \in 1..Len(result) :
            LET merged == heap[result[i]]
                from   == Contributors(OutKey(i))
            IN  /\ \A r \in from :
                      "Raw_Info" \in DOMAIN heap0[r] =>
                          /\ "Raw_Info" \in DOMAIN merged
                          /\ Len(merged.Raw_Info) >= Len(heap0[r].Raw_Info)
                /\ "Raw_Info" \in DOMAIN merged =>
                      \E r \in from : /\ "Raw_Info" \in DOMAIN heap0[r]
                                      /\ merged.Raw_Info = heap0[r].Raw_Info
                /\ \A f \in RecordFields \ {"Raw_Info"} :
                      (\E r \in from : HadValue(r, f)) =>
                          LET first == CHOOSE r \in from :
                                           /\ HadValue(r, f)
                                           /\ \A q \in from : q < r => ~HadValue(q, f)
                          IN  /\ f \in DOMAIN merged
                              /\ ~Falsy(f, merged[f])
                              /\ merged[f] = heap0[first][f]

\* three records of one key from two sources; the first has the shortest note
\* and lacks the duplicate flag, which a later one supplies
C8_Witness ==
    /\ mpc = "done"
    /\ Len(result) = 1
    /\ Cardinality(Contributors(OutKey(1))) = 3
    /\ SourceOf(1) # SourceOf(3)
    /\ Len(heap0[1].Raw_Info) < Len(heap[result[1]].Raw_Info)
    /\ "Is_Duplicate_or_Ignore" \notin DOMAIN heap0[1]
    /\ heap[result[1]].Is_Duplicate_or_Ignore = TRUE

(***************************************************************************)
(* WikipediaService (services/wikipedia.py)                                *)
(*                                                                         *)
(* A row is the sequence of its <td> and <th> cells, in document order.  A *)
(* cell holds its tag, whether it carries scope="row", its get_text, and   *)
(* the get_text of its first <a>, of its first <i> and of the first <a> of *)
(* its first <i>, each a sequence of no or one string.                     *)
(***************************************************************************)
\* the bounds of a valid year
MinYear == 1970
MaxYear == 2030
\* a title has at least MinTitleLen characters
MinTitleLen == 2
\* a note has more than NoteFloor characters, and is cut to NoteCut
NoteFloor == 15
NoteCut == 200

DigitSeq == <<"0","1","2","3","4","5","6","7","8","9">>
\* int(), one digit
DigitValue(c) == (CHOOSE d \in 1..10 : DigitSeq[d] = c) - 1

\* int(year_match.group()) for the four digits of s from index i on
FourDigits(s, i) ==
    1000 * DigitValue(s[i]) + 100 * DigitValue(s[i + 1])
        + 10 * DigitValue(s[i + 2]) + DigitValue(s[i + 3])

IsFourDigitsAt(s, i) == i + 3 <= Len(s) /\ \A k \in i..(i + 3) : s[k] \in Digits

\* re.search(r"\d{4}", year_text): int of the leftmost match, 0 without one
YearIn(year_text) ==
    IF \E i \in 1..Len(year_text) : IsFourDigitsAt(year_text, i)
    THEN FourDigits(year_text,
                    CHOOSE i \in 1..Len(year_text) :
                        /\ IsFourDigitsAt(year_text, i)
                        /\ \A h \in 1..(i - 1) : ~IsFourDigitsAt(year_text, h))
    ELSE 0

\* where a match of  \[\d+\]  that starts at i ends (0: no match)
RefEnd(s, i) ==
    IF i <= Len(s) /\ s[i] = "["
    THEN LET j == SkipClass(s, i + 1, Digits)
         IN  IF j > i + 1 /\ j <= Len(s) /\ s[j] = "]" THEN j + 1 ELSE 0
    ELSE 0

\* where a match of  \s*<lit>  (re.IGNORECASE) that starts at i ends (0: no match)
AnnotationEnd(s, i, lit) ==
    LET j == SkipClass(s, i, WS)
    IN  IF MatchAtI(s, j, lit) THEN j + Len(lit) ELSE 0

RECURSIVE RemoveRefs(_, _)
\* re.sub(r"\[\d+\]", "", s), from index i on
RemoveRefs(s, i) ==
    IF i > Len(s) THEN <<>>
    ELSE IF RefEnd(s, i) # 0 THEN RemoveRefs(s, RefEnd(s, i))
    ELSE <<s[i]>> \o RemoveRefs(s, i + 1)

RECURSIVE RemoveAnnotation(_, _, _)
\* re.sub(r"\s*<lit>", "", s, flags=re.IGNORECASE), from index i on
RemoveAnnotation(s, i, lit) ==
    IF i > Len(s) THEN <<>>
    ELSE IF AnnotationEnd(s, i, lit) # 0 THEN RemoveAnnotation(s, AnnotationEnd(s, i, lit), lit)
    ELSE <<s[i]>> \o RemoveAnnotation(s, i + 1, lit)

_clean_title(t) ==
    LET t1 == RemoveRefs(t, 1)
        t2 == RemoveAnnotation(t1, 1, <<"(","n","o","v","e","l",")">>)
        t3 == RemoveAnnotation(t2, 1, <<"(","n","o","v","e","l","l","a",")">>)
        t4 == RemoveAnnotation(t3, 1, <<"(","c","o","l","l","e","c","t","i","o","n",")">>)
    IN  str_strip(t4)

\* sub in s
Contains(s, sub) == \E i \in 1..(Len(s) + 1) : MatchAt(s, i, sub)

\* the publishers list of _parse_row
Publishers ==
    { <<"d","o","u","b","l","e","d","a","y">>, <<"v","i","k","i","n","g">>,
      <<"s","i","g","n","e","t">>, <<"s","c","r","i","b","n","e","r">>,
      <<"s","i","m","o","n">>, <<"p","u","t","n","a","m">> }

\* re.match(r"^[\d\-X]+$", text)
IsIdentifier(text) == text # <<>> /\ \A k \in 1..Len(text) : text[k] \in Digits \cup {"-", "X"}

\* the year of the first <td> of the row, 0 without a <td> or without a year
OwnYear(cells) ==
    IF \E n \in 1..Len(cells) : cells[n].tag = "td"
    THEN YearIn(cells[CHOOSE n \in 1..Len(cells) :
                          /\ cells[n].tag = "td"
                          /\ \A h \in 1..(n - 1) : cells[h].tag # "td"].text)
    ELSE 0

InRange(year) == MinYear <= year /\ year <= MaxYear

\* a year resolution without the forward-fill of a blank year cell
ResolveYear_no_fill(own, previous_year) ==
    IF own < MinYear \/ own > MaxYear
    THEN IF own # 0 /\ InRange(previous_year) THEN previous_year ELSE 0
    ELSE own

\* a year resolution that takes the row's own year at face value
ResolveYear_face_value(own, previous_year) ==
    IF own = 0 THEN previous_year ELSE own

\* the year of the row after the fallbacks of _parse_row (0: none)
ResolveYear(own, previous_year) ==
    LET year == IF own = 0 THEN previous_year ELSE own
    IN  IF year < MinYear \/ year > MaxYear
        THEN IF InRange(previous_year) THEN previous_year ELSE 0
        ELSE year

\* the title cell: the first <th scope="row">, else the second cell, else none
\* (a sequence of no or one cell)
TitleCell(cells) ==
    IF \E n \in 1..Len(cells) : cells[n].tag = "th" /\ cells[n].scope_row
    THEN << cells[CHOOSE n \in 1..Len(cells) :
                      /\ cells[n].tag = "th" /\ cells[n].scope_row
                      /\ \A h \in 1..(n - 1) : ~(cells[h].tag = "th" /\ cells[h].scope_row)] >>
    ELSE IF Len(cells) > 1 THEN << cells[2] >>
    ELSE <<>>

\* the text of the title: the link in italics, else the link, else the italics,
\* else the cell's text
RawTitle(title_cell) ==
    IF title_cell.i_a # <<>> THEN title_cell.i_a[1]
    ELSE IF title_cell.a # <<>> THEN title_cell.a[1]
    ELSE IF title_cell.i # <<>> THEN title_cell.i[1]
    ELSE title_cell.text

RECURSIVE NotesFrom(_, _)
\* the loop over reversed(cells), from cell n down
NotesFrom(cells, n) ==
    IF n = 0 THEN <<>>
    ELSE IF Len(cells[n].text) > NoteFloor /\ ~IsIdentifier(cells[n].text)
         THEN SubSeq(cells[n].text, 1, Min(NoteCut, Len(cells[n].text)))
    ELSE NotesFrom(cells, n - 1)

\* a _parse_row that keeps a row whose year stayed unresolved
_parse_row_keep_unresolved(cells, previous_year) ==
    IF Len(cells) < 1 THEN [why |-> "no cells"]
    ELSE LET year == ResolveYear(OwnYear(cells), previous_year)
         IN  IF TitleCell(cells) = <<>> THEN [why |-> "no title cell"]
             ELSE LET t == _clean_title(RawTitle(TitleCell(cells)[1]))
                      notes == NotesFrom(cells, Len(cells))
                  IN  IF t = <<>> \/ Len(t) < MinTitleLen THEN [why |-> "short title"]
                      ELSE IF \E pub \in Publishers : Contains(str_lower(t), pub)
                           THEN [why |-> "publisher"]
                      ELSE [why |-> "book",
                            book |-> [Titre_VO |-> t,
                                      Annee_VO |-> year,
                                      Raw_Info |-> notes,
                                      Is_Bachman |-> Contains(str_lower(notes),
                                                              <<"b","a","c","h","m","a","n">>),
                                      Is_Duplicate_or_Ignore |-> FALSE]]

\* _parse_row(row, previous_year): why is "book" and book the dict returned, or
\* why tells which return None was taken
_parse_row(cells, previous_year) ==
    IF Len(cells) < 1 THEN [why |-> "no cells"]
    ELSE LET year == ResolveYear(OwnYear(cells), previous_year)
         IN  IF year = 0 THEN [why |-> "no year"]
             ELSE IF TitleCell(cells) = <<>> THEN [why |-> "no title cell"]
             ELSE LET t == _clean_title(RawTitle(TitleCell(cells)[1]))
                      notes == NotesFrom(cells, Len(cells))
                  IN  IF t = <<>> \/ Len(t) < MinTitleLen THEN [why |-> "short title"]
                      ELSE IF \E pub \in Publishers : Contains(str_lower(t), pub)
                           THEN [why |-> "publisher"]
                      ELSE [why |-> "book",
                            book |-> [Titre_VO |-> t,
                                      Annee_VO |-> year,
                                      Raw_Info |-> notes,
                                      Is_Bachman |-> Contains(str_lower(notes),
                                                              <<"b","a","c","h","m","a","n">>),
                                      Is_Duplicate_or_Ignore |-> FALSE]]

(***************************************************************************)
(* The rows of a table.                                                    *)
(***************************************************************************)
\* a table has at most MaxRows rows after its header
MaxRows == 3

\* <tr><td>1977</td><th scope=row><i><a>Rage</a></i></th><td>Published as Richard Bachman</td></tr>
RowRage ==
    << [tag |-> "td", scope_row |-> FALSE, text |-> <<"1","9","7","7">>,
          a |-> <<>>, i |-> <<>>, i_a |-> <<>>],
        [tag |-> "th", scope_row |-> TRUE, text |-> <<"R","a","g","e">>,
          a |-> <<<<"R","a","g","e">>>>, i |-> <<<<"R","a","g","e">>>>, i_a |-> <<<<"R","a","g","e">>>>],
        [tag |-> "td", scope_row |-> FALSE, text |-> <<"P","u","b","l","i","s","h","e","d"," ","a","s"," ","R","i","c","h","a","r","d"," ","B","a","c","h","m","a","n">>,
          a |-> <<>>, i |-> <<>>, i_a |-> <<>>] >>

\* <tr><td></td><th scope=row><i>The Long Walk</i>[2]</th></tr>: a blank year cell
RowLongWalk ==
    << [tag |-> "td", scope_row |-> FALSE, text |-> <<>>,
          a |-> <<>>, i |-> <<>>, i_a |-> <<>>],
        [tag |-> "th", scope_row |-> TRUE, text |-> <<"T","h","e"," ","L","o","n","g"," ","W","a","l","k","[","2","]">>,
          a |-> <<>>, i |-> <<<<"T","h","e"," ","L","o","n","g"," ","W","a","l","k">>>>, i_a |-> <<>>] >>

\* <tr><th scope=row><a>Roadwork (novel)</a></th><td>978-0-451-09668-5</td></tr>: the year cell is spanned from the row above, the first <td> is an ISBN
RowRoadwork ==
    << [tag |-> "th", scope_row |-> TRUE, text |-> <<"R","o","a","d","w","o","r","k"," ","(","n","o","v","e","l",")">>,
          a |-> <<<<"R","o","a","d","w","o","r","k"," ","(","n","o","v","e","l",")">>>>, i |-> <<>>, i_a |-> <<>>],
        [tag |-> "td", scope_row |-> FALSE, text |-> <<"9","7","8","-","0","-","4","5","1","-","0","9","6","6","8","-","5">>,
          a |-> <<>>, i |-> <<>>, i_a |-> <<>>] >>

\* <tr><td>1986</td><td><a>It</a>[3]</td></tr>: no <th>, the title is the second cell
RowIt ==
    << [tag |-> "td", scope_row |-> FALSE, text |-> <<"1","9","8","6">>,
          a |-> <<>>, i |-> <<>>, i_a |-> <<>>],
        [tag |-> "td", scope_row |-> FALSE, text |-> <<"I","t","[","3","]">>,
          a |-> <<<<"I","t">>>>, i |-> <<>>, i_a |-> <<>>] >>

\* <tr><td>2199</td><th scope=row>Misery[12]</th></tr>: a year out of range
RowFarYear ==
    << [tag |-> "td", scope_row |-> FALSE, text |-> <<"2","1","9","9">>,
          a |-> <<>>, i |-> <<>>, i_a |-> <<>>],
        [tag |-> "th", scope_row |-> TRUE, text |-> <<"M","i","s","e","r","y","[","1","2","]">>,
          a |-> <<>>, i |-> <<>>, i_a |-> <<>>] >>

\* <tr><td>1969</td><th scope=row>Carrie</th></tr>: a year out of range
RowOldYear ==
    << [tag |-> "td", scope_row |-> FALSE, text |-> <<"1","9","6","9">>,
          a |-> <<>>, i |-> <<>>, i_a |-> <<>>],
        [tag |-> "th", scope_row |-> TRUE, text |-> <<"C","a","r","r","i","e">>,
          a |-> <<>>, i |-> <<>>, i_a |-> <<>>] >>

\* <tr><td>1982</td><th scope=row>Viking Press</th></tr>: a publisher in the title cell
RowPublisher ==
    << [tag |-> "td", scope_row |-> FALSE, text |-> <<"1","9","8","2">>,
          a |-> <<>>, i |-> <<>>, i_a |-> <<>>],
        [tag |-> "th", scope_row |-> TRUE, text |-> <<"V","i","k","i","n","g"," ","P","r","e","s","s">>,
          a |-> <<>>, i |-> <<>>, i_a |-> <<>>] >>

\* <tr><td>1990</td></tr>: no title cell
RowYearOnly ==
    << [tag |-> "td", scope_row |-> FALSE, text |-> <<"1","9","9","0">>,
          a |-> <<>>, i |-> <<>>, i_a |-> <<>>] >>

\* <tr><td>1999</td><th scope=row>X[1]</th></tr>: a title of one character
RowShortTitle ==
    << [tag |-> "td", scope_row |-> FALSE, text |-> <<"1","9","9","9">>,
          a |-> <<>>, i |-> <<>>, i_a |-> <<>>],
        [tag |-> "th", scope_row |-> TRUE, text |-> <<"X","[","1","]">>,
          a |-> <<>>, i |-> <<>>, i_a |-> <<>>] >>

\* <tr></tr>
RowEmpty ==
    <<>>
RowPool == { RowRage, RowLongWalk, RowRoadwork, RowIt, RowFarYear, RowOldYear,
             RowPublisher, RowYearOnly, RowShortTitle, RowEmpty }

InitWiki ==
    /\ wpc = "loop"
    /\ rows \in UNION { [1..n -> RowPool] : n \in 0..MaxRows }
    /\ ri = 0
    /\ current_year = 0
    /\ books = <<>>
    /\ trace = <<>>
    /\ TitleIdle /\ MergeIdle /\ MatchIdle /\ BaseIdle /\ MainIdle /\ RetryIdle

\* _parse_row on the row the loop of _parse_section is at
Parsed == _parse_row(rows[ri + 1], current_year)

\* what the loop has seen of the row: the year of its own cell, the year
\* handed to _parse_row, and the record returned (none for None)
Seen(returned) ==
    [own |-> OwnYear(rows[ri + 1]), previous_year |-> current_year, returned |-> returned]

\* the row yields a record: it is tagged and appended, and its year remembered
EmitRow ==
    /\ wpc = "loop" /\ ri < Len(rows)
    /\ Parsed.why = "book"
    /\ LET book == [k \in DOMAIN Parsed.book \cup {"Source", "Section"} |->
                        IF k = "Source" THEN "Wikipedia"
                        ELSE IF k = "Section" THEN "Novels"
                        ELSE Parsed.book[k]]
       IN  /\ books' = Append(books, book)
           /\ trace' = Append(trace, Seen(<<book>>))
    /\ current_year' = Parsed.book.Annee_VO
    /\ ri' = ri + 1
    /\ UNCHANGED <<wpc, rows, titleVars, mergeVars, matchVars, baseVars,
                   mainVars, retryVars>>

\* a loop that remembers the year of a row it drops, when that year is valid
DropEffect_remember_own ==
    /\ trace' = Append(trace, Seen(<<>>))
    /\ ri' = ri + 1
    /\ current_year' = IF InRange(OwnYear(rows[ri + 1])) THEN OwnYear(rows[ri + 1])
                       ELSE current_year
    /\ UNCHANGED <<wpc, rows, books, titleVars, mergeVars, matchVars, baseVars,
                   mainVars, retryVars>>

\* what the loop does with a None: no record, current_year as it was
DropEffect ==
    /\ trace' = Append(trace, Seen(<<>>))
    /\ ri' = ri + 1
    /\ UNCHANGED <<wpc, rows, current_year, books, titleVars, mergeVars, matchVars, baseVars,
                   mainVars, retryVars>>

\* if len(cells) < 1: return None
DropNoCells ==
    /\ wpc = "loop" /\ ri < Len(rows)
    /\ Parsed.why = "no cells"
    /\ DropEffect

\* if year == 0: return None
DropNoYear ==
    /\ wpc = "loop" /\ ri < Len(rows)
    /\ Parsed.why = "no year"
    /\ DropEffect

\* if not title_cell: return None
DropNoTitleCell ==
    /\ wpc = "loop" /\ ri < Len(rows)
    /\ Parsed.why = "no title cell"
    /\ DropEffect

\* if not title or len(title) < 2: return None
DropShortTitle ==
    /\ wpc = "loop" /\ ri < Len(rows)
    /\ Parsed.why = "short title"
    /\ DropEffect

\* if any(pub in title.lower() for pub in publishers): return None
DropPublisher ==
    /\ wpc = "loop" /\ ri < Len(rows)
    /\ Parsed.why = "publisher"
    /\ DropEffect

\* return books
SectionReturn ==
    /\ wpc = "loop" /\ ri = Len(rows)
    /\ wpc' = "done"
    /\ UNCHANGED <<rows, ri, current_year, books, trace, titleVars, mergeVars, matchVars, baseVars,
                   mainVars, retryVars>>

NextWiki ==
    \/ EmitRow
    \/ DropNoCells
    \/ DropNoYear
    \/ DropNoTitleCell
    \/ DropShortTitle
    \/ DropPublisher
    \/ SectionReturn

SpecWiki == InitWiki /\ [][NextWiki]_vars

(***************************************************************************)
(* Claims about the table extractor (checked under SpecWiki).              *)
(***************************************************************************)
\* the first <td> of the row holds no run of four digits
BlankYearCell(cells) ==
    /\ \E n \in 1..Len(cells) : cells[n].tag = "td"
    /\ LET td == cells[CHOOSE n \in 1..Len(cells) :
                          /\ cells[n].tag = "td"
                          /\ \A h \in 1..(n - 1) : cells[h].tag # "td"]
       IN  \A i \in 1..Len(td.text) : ~IsFourDigitsAt(td.text, i)

\* the row has a title cell whose cleaned title passes the two title checks
UsableTitle(cells) ==
    /\ TitleCell(cells) # <<>>
    /\ LET t == _clean_title(RawTitle(TitleCell(cells)[1]))
       IN  /\ Len(t) >= MinTitleLen
           /\ \A pub \in Publishers : ~Contains(str_lower(t), pub)

\* C9: forward-fill: when a row is emitted with year Y and the next row has a
\* first data cell without a 4-digit year and a usable title, the next row is
\* emitted with year Y; the rows ("1977", "Rage"), ("", "The Long Walk") yield
\* two records, both of 1977.
C9_ForwardFill ==
    /\ \A n \in 1..(Len(trace) - 1) :
          ( /\ trace[n].returned # <<>>
            /\ BlankYearCell(rows[n + 1])
            /\ UsableTitle(rows[n + 1]) )
          => /\ trace[n + 1].returned # <<>>
             /\ trace[n + 1].returned[1].Annee_VO = trace[n].returned[1].Annee_VO
    /\ (wpc = "done" /\ rows = <<RowRage, RowLongWalk>>)
          => /\ Len(books) = 2
             /\ books[1].Annee_VO = 1977
             /\ books[2].Annee_VO = 1977

\* the two rows of the example parsed, the second filled from the first
C9_Witness ==
    /\ wpc = "done"
    /\ rows = <<RowRage, RowLongWalk>>
    /\ BlankYearCell(rows[2])
    /\ Len(books) = 2
    /\ books[2].Annee_VO = 1977

\* C10: a row whose own year lies outside [1970, 2030] is never emitted with
\* that year: when current_year is within [1970, 2030] the row is emitted with
\* current_year (as far as its title lets it be emitted at all), otherwise the
\* row is dropped; 2199 after an emitted row of 1986 gives 1986.
C10_OutOfRangeFallsBack ==
    \A n \in 1..Len(trace) :
        LET own  == trace[n].own
            prev == trace[n].previous_year
            out  == trace[n].returned
        IN  (own < MinYear \/ own > MaxYear) =>
                /\ out # <<>> => (out[1].Annee_VO = prev /\ out[1].Annee_VO # own)
                /\ ~(MinYear <= prev /\ prev <= MaxYear) => out = <<>>
                /\ ((MinYear <= prev /\ prev <= MaxYear) /\ UsableTitle(rows[n]))
                       => (out # <<>> /\ out[1].Annee_VO = prev)

\* a row of 2199 after an emitted row of 1986, emitted with 1986
C10_Witness ==
    /\ Len(trace) >= 2
    /\ trace[1].returned # <<>>
    /\ trace[1].returned[1].Annee_VO = 1986
    /\ trace[2].own = 2199
    /\ trace[2].returned # <<>>
    /\ trace[2].returned[1].Annee_VO = 1986

\* C11: every record the extractor emits has a year within [1970, 2030];
\* current_year is always 0 or within [1970, 2030]; a row whose year stays
\* unresolved (0) after the fallbacks is dropped and yields no record.
C11_YearsInRange ==
    /\ \A n \in 1..Len(books) : InRange(books[n].Annee_VO)
    /\ current_year = 0 \/ InRange(current_year)
    /\ \A n \in 1..Len(trace) :
          /\ trace[n].previous_year = 0 \/ InRange(trace[n].previous_year)
          /\ ResolveYear(trace[n].own, trace[n].previous_year) = 0
                => trace[n].returned = <<>>
    /\ Len(books) = Cardinality({n \in 1..Len(trace) : trace[n].returned # <<>>})

\* a row with a usable title and an unresolved year dropped, and a row after
\* it emitted with a year of its own
C11_Witness ==
    /\ Len(trace) >= 2
    /\ UsableTitle(rows[1])
    /\ ResolveYear(trace[1].own, trace[1].previous_year) = 0
    /\ trace[1].returned = <<>>
    /\ trace[2].returned # <<>>
    /\ Len(books) = 1
    /\ InRange(current_year)

\* C18: current_year changes only when a row is emitted, and then becomes that
\* row's resolved year; a row dropped at any step, even one whose own year
\* cell held a valid year, leaves current_year unchanged, so that a following
\* row is handed the year of the last emitted row.
C18_YearChangesOnlyOnEmit ==
    [][ /\ current_year' # current_year => Len(books') = Len(books) + 1
        /\ Len(books') = Len(books) + 1
              => current_year' = books'[Len(books')].Annee_VO
        /\ Len(books') = Len(books) => current_year' = current_year
        /\ \A n \in 1..Len(trace') : \A m \in (n + 1)..Len(trace') :
              ( /\ trace'[n].returned # <<>>
                /\ \A h \in (n + 1)..(m - 1) : trace'[h].returned = <<>> )
              => /\ trace'[m].previous_year = trace'[n].returned[1].Annee_VO
                 /\ (BlankYearCell(rows[m]) /\ UsableTitle(rows[m]))
                       => /\ trace'[m].returned # <<>>
                          /\ trace'[m].returned[1].Annee_VO
                                = trace'[n].returned[1].Annee_VO
      ]_vars

\* a row with a valid year of its own dropped after an emitted row, and the
\* blank-year row after it emitted with the year of the emitted row
C18_Witness ==
    /\ Len(trace) = 3
    /\ trace[1].returned # <<>>
    /\ trace[2].returned = <<>>
    /\ InRange(trace[2].own)
    /\ trace[2].own # trace[1].returned[1].Annee_VO
    /\ BlankYearCell(rows[3])
    /\ trace[3].returned # <<>>
    /\ trace[3].returned[1].Annee_VO = trace[1].returned[1].Annee_VO
    /\ current_year = trace[1].returned[1].Annee_VO

(***************************************************************************)
(* main (main.py): the pass over the merged candidates.                    *)
(***************************************************************************)
\* the tabs of the store (config.TAB_MAPPING)
TAB_MAPPING ==
    { "Romans", "La Tour Sombre", "Série Bill Hodges", "Série Gwendy Peterson",
      "Richard Bachman", "Recueils de nouvelles" }

\* dict.get(k, default)
Get(d, k, default) == IF k \in DOMAIN d THEN d[k] ELSE default

\* GeminiService.categorize_book: the parsed response of the call (<<>>: the
\* call gave None), updated with the fields of the candidate itself, which
\* replace the fields of the same name
categorize_book(book_data, response) ==
    IF response = <<>> THEN <<>>
    ELSE << [k \in DOMAIN response[1] \cup DOMAIN book_data |->
                IF k \in DOMAIN book_data THEN book_data[k] ELSE response[1][k]] >>

\* Book.from_raw
from_raw(data) ==
    [titre_vo |-> Get(data, "Titre_VO", <<>>),
     annee_vo |-> Get(data, "Annee_VO", 0),
     titre_vf |-> <<>>,
     annee_vf |-> 0,
     details  |-> "",
     category |-> "Romans",
     raw_info |-> Get(data, "Raw_Info", <<>>)]

\* Book.update_from_analysis
update_from_analysis(book, analysis) ==
    [book EXCEPT !.titre_vf = Get(analysis, "Titre_VF", <<>>),
                 !.annee_vf = Get(analysis, "Annee_FR", 0),
                 !.details  = Get(analysis, "Details", ""),
                 !.category = Get(analysis, "Category", "Romans")]

\* Book.to_row
to_row(book) == <<book.titre_vf, book.titre_vo, book.annee_vo, book.annee_vf>>

\* a fuzzy match that takes equal keys only for similar
FuzzyMatch_equal_only(titre_vf_normalized, known) ==
    \E existing \in known : is_similar_title(titre_vf_normalized, existing, 100)

\* the loop over existing_normalized: some known key is similar
FuzzyMatch(titre_vf_normalized, known) ==
    \E existing \in known : is_similar_title(titre_vf_normalized, existing, DefaultThreshold)

\* the checks of a pass, in their order: which one stops the candidate, or
\* "accept" when none does
Gate(analysis, known) ==
    IF analysis = <<>> THEN "analysis failed"
    ELSE IF Get(analysis[1], "Is_Duplicate_or_Ignore", TRUE) THEN "duplicate"
    ELSE IF Get(analysis[1], "Annee_FR", 0) = 0 THEN "untranslated"
    ELSE LET titre_vf_normalized == normalize_title(Get(analysis[1], "Titre_VF", <<>>))
         IN  IF titre_vf_normalized \in known THEN "exact"
             ELSE IF FuzzyMatch(titre_vf_normalized, known) THEN "similar"
             ELSE "accept"

\* merge returned at most MaxCandidates candidates
MaxCandidates == 2

\* candidates as the sources shape them: Wikipedia's carry the flag False,
\* Gemini's carry the flag of the bibliography request
RawWind ==
    [Titre_VO |-> <<"T","h","e"," ","W","i","n","d"," ","T","h","r","o","u","g","h"," ","t","h","e"," ","K","e","y","h","o","l","e">>, Annee_VO |-> 2012, Raw_Info |-> <<>>, Is_Bachman |-> FALSE,
     Is_Duplicate_or_Ignore |-> FALSE, Source |-> "Wikipedia", Section |-> "Novels"]
RawIt ==
    [Titre_VO |-> <<"I","t">>, Annee_VO |-> 1986, Raw_Info |-> <<>>, Is_Bachman |-> FALSE,
     Is_Duplicate_or_Ignore |-> FALSE, Source |-> "Wikipedia", Section |-> "Novels"]
RawLater ==
    [Titre_VO |-> <<"L","a","t","e","r">>, Annee_VO |-> 2021, Raw_Info |-> <<>>,
     Is_Duplicate_or_Ignore |-> TRUE]
RawBilly ==
    [Titre_VO |-> <<"B","i","l","l","y"," ","S","u","m","m","e","r","s">>, Annee_VO |-> 2021, Raw_Info |-> <<>>,
     Is_Duplicate_or_Ignore |-> FALSE]

RawPool == { RawWind, RawIt, RawLater, RawBilly }

TitleCleDesVents == <<"L","a"," ","C","l","é"," ","d","e","s"," ","v","e","n","t","s">>
TitleClarDesVents == <<"L","a"," ","C","l","a","r"," ","d","e","s"," ","v","e","n","t","s">>
TitleCa == <<"Ç","a">>

\* what the analysis request may answer
Responses ==
    { [Titre_VF |-> TitleCleDesVents, Annee_FR |-> 2012, Details |-> "", Category |-> "Romans",
       Is_Duplicate_or_Ignore |-> FALSE],
      [Titre_VF |-> TitleClarDesVents, Annee_FR |-> 2012, Details |-> "", Category |-> "Romans",
       Is_Duplicate_or_Ignore |-> FALSE],
      [Titre_VF |-> TitleCa, Annee_FR |-> 1988, Details |-> "", Category |-> "Romans",
       Is_Duplicate_or_Ignore |-> TRUE],
      [Titre_VF |-> <<>>, Annee_FR |-> 0, Details |-> "", Category |-> "Romans",
       Is_Duplicate_or_Ignore |-> FALSE],
      [Titre_VF |-> TitleCa, Annee_FR |-> 1988, Details |-> "", Category |-> "Essais",
       Is_Duplicate_or_Ignore |-> FALSE] }

\* the results of categorize_book's call: None, or a parsed response
ApiResults == { <<>> } \cup { <<r>> : r \in Responses }

\* the known titles the run starts with
KnownSets == { {}, { TitleCleDesVents } }

\* the lists merge can return for a known-title set: one record for a key, no
\* key the existence check accepts
MergedLists(known) ==
    { l \in UNION { [1..n -> RawPool] : n \in 0..MaxCandidates } :
        /\ \A i \in 1..Len(l) : \A j \in 1..Len(l) :
               i # j => _normalize(l[i].Titre_VO) # _normalize(l[j].Titre_VO)
        /\ \A i \in 1..Len(l) :
               ~_is_existing(_normalize(l[i].Titre_VO), { _normalize(t) : t \in known }) }

InitMain ==
    /\ fpc = "loop"
    /\ run_titles \in KnownSets
    /\ run_normalized = { normalize_title(t) : t \in run_titles }
    /\ candidates \in MergedLists(run_titles)
    /\ fi = 0
    /\ added_books = <<>>
    /\ sheet = <<>>
    /\ flow = <<>>
    /\ TitleIdle /\ MergeIdle /\ WikiIdle /\ MatchIdle /\ BaseIdle /\ RetryIdle

\* a pass of the loop is at hand
InPass == fpc = "loop" /\ fi < Len(candidates)

raw_book == candidates[fi + 1]

\* the book of a pass: from_raw, then update_from_analysis
BookOf(response) ==
    update_from_analysis(from_raw(raw_book), categorize_book(raw_book, response)[1])

\* a pass that adds nothing: continue, or add_book returned False
PassOver(response, why) ==
    /\ flow' = Append(flow, [raw |-> raw_book, response |-> response, did |-> why])
    /\ fi' = fi + 1
    /\ UNCHANGED <<fpc, run_titles, run_normalized, candidates, added_books, sheet,
                   titleVars, mergeVars, wikiVars, matchVars, baseVars, retryVars>>

\* if not analysis: continue
PassAnalysisFailed ==
    /\ InPass
    /\ \E response \in ApiResults :
          /\ Gate(categorize_book(raw_book, response), run_normalized) = "analysis failed"
          /\ PassOver(response, "analysis failed")

\* if analysis.get("Is_Duplicate_or_Ignore", True): continue
PassDuplicate ==
    /\ InPass
    /\ \E response \in ApiResults :
          /\ Gate(categorize_book(raw_book, response), run_normalized) = "duplicate"
          /\ PassOver(response, "duplicate")

\* if not annee_fr or annee_fr == 0: continue
PassUntranslated ==
    /\ InPass
    /\ \E response \in ApiResults :
          /\ Gate(categorize_book(raw_book, response), run_normalized) = "untranslated"
          /\ PassOver(response, "untranslated")

\* if titre_vf_normalized in existing_normalized: continue
PassExactTitle ==
    /\ InPass
    /\ \E response \in ApiResults :
          /\ Gate(categorize_book(raw_book, response), run_normalized) = "exact"
          /\ PassOver(response, "exact")

\* if is_duplicate: continue
PassSimilarTitle ==
    /\ InPass
    /\ \E response \in ApiResults :
          /\ Gate(categorize_book(raw_book, response), run_normalized) = "similar"
          /\ PassOver(response, "similar")

\* add_book returns False: the category names no tab
PassAddRefused ==
    /\ InPass
    /\ \E response \in ApiResults :
          /\ Gate(categorize_book(raw_book, response), run_normalized) = "accept"
          /\ BookOf(response).category \notin TAB_MAPPING
          /\ PassOver(response, "add refused")

\* an add_book that fails and yet records the titles of the book
PassAddFailed_records_titles ==
    /\ InPass
    /\ \E response \in ApiResults :
          /\ Gate(categorize_book(raw_book, response), run_normalized) = "accept"
          /\ BookOf(response).category \in TAB_MAPPING
          /\ flow' = Append(flow, [raw |-> raw_book, response |-> response,
                                   did |-> "add failed"])
          /\ run_titles' = run_titles \cup { BookOf(response).titre_vo,
                                             BookOf(response).titre_vf }
          /\ run_normalized' = run_normalized
                                 \cup { normalize_title(BookOf(response).titre_vo),
                                        normalize_title(BookOf(response).titre_vf) }
    /\ fi' = fi + 1
    /\ UNCHANGED <<fpc, candidates, added_books, sheet,
                   titleVars, mergeVars, wikiVars, matchVars, baseVars, retryVars>>

\* add_book returns False: the write raised
PassAddFailed ==
    /\ InPass
    /\ \E response \in ApiResults :
          /\ Gate(categorize_book(raw_book, response), run_normalized) = "accept"
          /\ BookOf(response).category \in TAB_MAPPING
          /\ PassOver(response, "add failed")

\* add_book returns True: the row is in the store, the book among the added
\* ones, and its two titles among the known ones
PassAdded ==
    /\ InPass
    /\ \E response \in ApiResults :
          /\ Gate(categorize_book(raw_book, response), run_normalized) = "accept"
          /\ LET book == BookOf(response)
             IN  /\ book.category \in TAB_MAPPING
                 /\ sheet' = Append(sheet, [tab |-> book.category, row |-> to_row(book)])
                 /\ added_books' = Append(added_books, book)
                 /\ run_titles' = run_titles \cup { book.titre_vo, book.titre_vf }
                 /\ run_normalized' = run_normalized
                                        \cup { normalize_title(book.titre_vo),
                                               normalize_title(book.titre_vf) }
          /\ flow' = Append(flow, [raw |-> raw_book, response |-> response, did |-> "added"])
    /\ fi' = fi + 1
    /\ UNCHANGED <<fpc, candidates,
                   titleVars, mergeVars, wikiVars, matchVars, baseVars, retryVars>>

\* if not all_books: return
NothingFound ==
    /\ fpc = "loop" /\ candidates = <<>>
    /\ fpc' = "done"
    /\ UNCHANGED <<run_titles, run_normalized, candidates, fi, added_books, sheet, flow,
                   titleVars, mergeVars, wikiVars, matchVars, baseVars, retryVars>>

\* the loop is over
LoopEnd ==
    /\ fpc = "loop" /\ candidates # <<>> /\ fi = Len(candidates)
    /\ fpc' = "done"
    /\ UNCHANGED <<run_titles, run_normalized, candidates, fi, added_books, sheet, flow,
                   titleVars, mergeVars, wikiVars, matchVars, baseVars, retryVars>>

NextMain ==
    \/ PassAnalysisFailed
    \/ PassDuplicate
    \/ PassUntranslated
    \/ PassExactTitle
    \/ PassSimilarTitle
    \/ PassAddRefused
    \/ PassAddFailed
    \/ PassAdded
    \/ NothingFound
    \/ LoopEnd

SpecMain == InitMain /\ [][NextMain]_vars

(***************************************************************************)
(* Claims about the main workflow (checked under SpecMain).                *)
(***************************************************************************)
\* C15: a book is added to the store only if, at that moment, the normalized
\* key of its translated title is no member of the normalized known-title set
\* and is similar to no member of it; the set holds the normalized original
\* and translated titles of every book added earlier in the run.
C15_AddedOnlyIfUnknown ==
    [][ Len(sheet') > Len(sheet) =>
          LET titre_vf_normalized == normalize_title(sheet'[Len(sheet')].row[1])
          IN  /\ titre_vf_normalized \notin run_normalized
              /\ \A existing \in run_normalized :
                     ~is_similar_title(titre_vf_normalized, existing, DefaultThreshold)
              /\ \A i \in 1..Len(added_books) :
                     /\ normalize_title(added_books[i].titre_vo) \in run_normalized
                     /\ normalize_title(added_books[i].titre_vf) \in run_normalized
      ]_vars

\* a book added, and the next candidate skipped for a translated title
\* similar to the one just added
C15_Witness ==
    /\ Len(flow) = 2
    /\ flow[1].did = "added"
    /\ flow[2].did = "similar"
    /\ Len(sheet) = 1
    /\ normalize_title(flow[2].response[1].Titre_VF) \notin run_normalized
    /\ is_similar_title(normalize_title(flow[2].response[1].Titre_VF),
                        normalize_title(added_books[1].titre_vf), DefaultThreshold)

\* C16: the known-title set and its normalized projection never lose an
\* element; they change only with a successful add_book, by gaining the
\* original and the translated title of the added book (and their keys), and
\* stay as they are when a candidate is skipped or add_book fails.
C16_KnownTitlesGrow ==
    [][ /\ run_titles \subseteq run_titles'
        /\ run_normalized \subseteq run_normalized'
        /\ Len(added_books') = Len(added_books)
              => (run_titles' = run_titles /\ run_normalized' = run_normalized)
        /\ Len(added_books') # Len(added_books)
              => LET book == added_books'[Len(added_books')]
                 IN  /\ Len(added_books') = Len(added_books) + 1
                     /\ Len(sheet') = Len(sheet) + 1
                     /\ run_titles' = run_titles \cup { book.titre_vo, book.titre_vf }
                     /\ run_normalized' = run_normalized
                                            \cup { normalize_title(book.titre_vo),
                                                   normalize_title(book.titre_vf) }
      ]_vars

\* an add_book that failed and left the sets as they were, then one that
\* succeeded and made both sets grow
C16_Witness ==
    /\ Len(flow) = 2
    /\ flow[1].did = "add failed"
    /\ flow[2].did = "added"
    /\ Len(added_books) = 1
    /\ added_books[1].titre_vo \in run_titles
    /\ added_books[1].titre_vf \in run_titles
    /\ normalize_title(added_books[1].titre_vf) \in run_normalized
    /\ Cardinality(run_titles) = 2

\* C17: a candidate whose analysis request answers Is_Duplicate_or_Ignore =
\* true is never added to the store, whatever flag the raw candidate carries
\* (the claim says more: that it is skipped at the duplicate check).
C17_AnalysisFlagSkips ==
    \A n \in 1..Len(flow) :
        (flow[n].response # <<>> /\ flow[n].response[1].Is_Duplicate_or_Ignore)
            => flow[n].did # "added"

(***************************************************************************)
(* GeminiService._call_with_retry (services/gemini.py)                     *)
(***************************************************************************)
\* config.MAX_RETRIES
MAX_RETRIES == 3

\* what a call of generate_content may end in: a response, whose text is
\* JSON or is not, an APIError, or another exception
CallResults ==
    { [kind |-> "response",  text |-> <<"[","{","'","T","i","t","r","e","_","V","O","'",":"," ",".",".",".","}","]">>],
      [kind |-> "response",  text |-> <<"<","h","t","m","l",">">>],
      [kind |-> "APIError",  text |-> <<"5","0","3"," ","U","N","A","V","A","I","L","A","B","L","E">>],
      [kind |-> "APIError",  text |-> <<"4","2","9"," ","R","E","S","O","U","R","C","E","_","E","X","H","A","U","S","T","E","D">>],
      [kind |-> "APIError",  text |-> <<"4","0","0"," ","I","N","V","A","L","I","D","_","A","R","G","U","M","E","N","T">>],
      [kind |-> "Exception", text |-> <<"t","i","m","e","d"," ","o","u","t">>] }

\* the texts json.loads accepts, among those of CallResults
JsonTexts == { <<"[","{","'","T","i","t","r","e","_","V","O","'",":"," ",".",".",".","}","]">> }

\* "503" in str(e) or "429" in str(e)
Retryable(e) ==
    \/ Contains(e.text, <<"5","0","3">>)
    \/ Contains(e.text, <<"4","2","9">>)

\* the requests the service sends: fetch_bibliography, categorize_book,
\* complete_book_info
Prompts == { "bibliography", "categorize", "complete" }

InitRetry ==
    /\ rpc = "call"
    /\ prompt \in Prompts
    /\ attempt = 0
    /\ calls = <<>>
    /\ slept = <<>>
    /\ outcome = <<>>
    /\ TitleIdle /\ MergeIdle /\ WikiIdle /\ MatchIdle /\ BaseIdle /\ MainIdle

\* the loop makes a call: for attempt in range(MAX_RETRIES)
AtCall == rpc = "call" /\ attempt < MAX_RETRIES

\* a return of the function with value
Return(ended, value) ==
    /\ calls' = Append(calls, ended)
    /\ outcome' = <<value>>
    /\ rpc' = "returned"
    /\ UNCHANGED <<prompt, attempt, slept,
                   titleVars, mergeVars, wikiVars, matchVars, baseVars, mainVars>>

\* return json.loads(response.text)
CallParsed ==
    /\ AtCall
    /\ \E ended \in CallResults :
          /\ ended.kind = "response" /\ ended.text \in JsonTexts
          /\ Return(ended, [parsed |-> ended.text, of |-> prompt])

\* json.loads raises: except Exception: return None
CallUnparsable ==
    /\ AtCall
    /\ \E ended \in CallResults :
          /\ ended.kind = "response" /\ ended.text \notin JsonTexts
          /\ Return(ended, "None")

\* an APIError that is retried although its text holds neither 503 nor 429
CallFatal_retried ==
    /\ AtCall
    /\ \E ended \in CallResults :
          /\ ended.kind = "APIError" /\ ~Retryable(ended)
          /\ calls' = Append(calls, ended)
          /\ rpc' = "sleep"
          /\ UNCHANGED <<prompt, attempt, slept, outcome,
                         titleVars, mergeVars, wikiVars, matchVars, baseVars, mainVars>>

\* except APIError, neither 503 nor 429: return None
CallFatal ==
    /\ AtCall
    /\ \E ended \in CallResults :
          /\ ended.kind = "APIError" /\ ~Retryable(ended)
          /\ Return(ended, "None")

\* except Exception: return None
CallRaised ==
    /\ AtCall
    /\ \E ended \in CallResults :
          /\ ended.kind = "Exception"
          /\ Return(ended, "None")

\* except APIError with 503 or 429: the loop goes on after a sleep
CallRetryable ==
    /\ AtCall
    /\ \E ended \in CallResults :
          /\ ended.kind = "APIError" /\ Retryable(ended)
          /\ calls' = Append(calls, ended)
          /\ rpc' = "sleep"
          /\ UNCHANGED <<prompt, attempt, slept, outcome,
                         titleVars, mergeVars, wikiVars, matchVars, baseVars, mainVars>>

\* time.sleep(2**attempt), and the next attempt
Sleep ==
    /\ rpc = "sleep"
    /\ slept' = Append(slept, 2 ^ attempt)
    /\ attempt' = attempt + 1
    /\ rpc' = "call"
    /\ UNCHANGED <<prompt, calls, outcome,
                   titleVars, mergeVars, wikiVars, matchVars, baseVars, mainVars>>

\* the loop is exhausted: return None
GiveUp ==
    /\ rpc = "call" /\ attempt >= MAX_RETRIES
    /\ outcome' = <<"None">>
    /\ rpc' = "returned"
    /\ UNCHANGED <<prompt, attempt, calls, slept,
                   titleVars, mergeVars, wikiVars, matchVars, baseVars, mainVars>>

NextRetry ==
    \/ CallParsed
    \/ CallUnparsable
    \/ CallFatal
    \/ CallRaised
    \/ CallRetryable
    \/ Sleep
    \/ GiveUp

SpecRetry == InitRetry /\ [][NextRetry]_vars

\* every call returns or raises, and every sleep ends
SpecRetryFair == SpecRetry /\ WF_vars(NextRetry)

(***************************************************************************)
(* Claims about the retry loop (checked under SpecRetryFair).              *)
(***************************************************************************)
\* the call ended in an APIError whose text holds 503 or 429
RetryableFailure(ended) == ended.kind = "APIError" /\ Retryable(ended)

\* the call ended in a response whose text is JSON
Success(ended) == ended.kind = "response" /\ ended.text \in JsonTexts

\* C20: _call_with_retry terminates after at most MAX_RETRIES (3) calls: it
\* returns the parsed result on the first successful call, makes another call
\* only after an API error whose text holds 503 or 429, returns None at once
\* on any other error, and returns None after the third retryable failure.
C20_RetryTerminates ==
    /\ <>(rpc = "returned")
    /\ [](Len(calls) <= MAX_RETRIES)
    /\ [][Len(calls') > Len(calls) =>
            /\ rpc # "returned"
            /\ \A n \in 1..Len(calls) : RetryableFailure(calls[n])]_vars
    /\ [](rpc = "returned" =>
            /\ calls # <<>>
            /\ LET last == calls[Len(calls)]
               IN  /\ Success(last)
                       => outcome = <<[parsed |-> last.text, of |-> prompt]>>
                   /\ ~Success(last) => outcome = <<"None">>
                   /\ RetryableFailure(last) => Len(calls) = MAX_RETRIES)
    /\ []((rpc # "returned" /\ calls # <<>>) => RetryableFailure(calls[Len(calls)]))

\* three retryable failures, a sleep after each, and None returned
C20_Witness ==
    /\ rpc = "returned"
    /\ Len(calls) = MAX_RETRIES
    /\ \A n \in 1..Len(calls) : RetryableFailure(calls[n])
    /\ slept = <<1, 2, 4>>
    /\ outcome = <<"None">>

====
